---- MODULE Spec2Model ----
(***************************************************************************)
(* Stepwise maze search engine: the seven search generators of             *)
(* services/algorithms (BFS, DFS, Dijkstra / A* / Greedy, bidirectional    *)
(* BFS, IDA* ), each advanced one next() call at a time over a small grid. *)
(*                                                                         *)
(* A Coordinate is a record [x, y]; a key (the string `${x},${y}`) is the  *)
(* tuple <<x, y>>; the empty string is the empty tuple.  A JavaScript Set  *)
(* is a duplicate-free sequence in insertion order, a Map a sequence of    *)
(* <<key, value>> pairs in insertion order.  An optional value is a        *)
(* sequence of length 0 or 1.                                              *)
(***************************************************************************)
EXTENDS Integers, Sequences, FiniteSets, TLC

\* ------------------------------------------------------------------ bounds
Cols == 3
Rows == 3
MaxExtraCalls == 2
MaxPathLen == 6
WideCols == 5
WideRows == 3
MaxWalls == 4

\* --------------------------------------------------------------- constants
WALL == 0
EMPTY == 1
START == 2
END == 3
Infinity == 1000000

AlgorithmType == {"BFS", "DFS", "DIJKSTRA", "ASTAR", "GREEDY", "BIDIRECTIONAL", "IDA_STAR"}

EmptyString == << >>
Undefined == <<"undefined">>

Cells == {[x |-> cx, y |-> cy] : cx \in 0..(Cols - 1), cy \in 0..(Rows - 1)}

VARIABLES grid, start, end, algorithm, gen, value, done, lastValue, extraCalls, tick,
          peer, driver, service, carver

vars == <<grid, start, end, algorithm, gen, value, done, lastValue, extraCalls, tick,
          peer, driver, service, carver>>

\* ----------------------------------------------------------------- helpers
Abs(n) == IF n < 0 THEN -n ELSE n

Last(s) == s[Len(s)]

Front(s) == SubSeq(s, 1, Len(s) - 1)

Reverse(s) == [i \in 1..Len(s) |-> s[Len(s) + 1 - i]]

SeqHas(s, e) == \E i \in 1..Len(s) : s[i] = e

\* Array.prototype.shift: the array without its first element
Shift(q) == Tail(q)

\* Set.prototype.has / add
SetHas(s, k) == SeqHas(s, k)

SetAdd(s, k) == IF SetHas(s, k) THEN s ELSE Append(s, k)

\* Map.prototype.has / get / set / keys
MapHas(m, k) == \E i \in 1..Len(m) : m[i][1] = k

MapGet(m, k) ==
  IF MapHas(m, k) THEN m[CHOOSE i \in 1..Len(m) : m[i][1] = k][2] ELSE Undefined

MapSet(m, k, v) ==
  IF MapHas(m, k)
    THEN [i \in 1..Len(m) |-> IF m[i][1] = k THEN <<k, v>> ELSE m[i]]
    ELSE Append(m, <<k, v>>)

MapKeys(m) == [i \in 1..Len(m) |-> m[i][1]]

Truthy(k) == k # EmptyString /\ k # Undefined

\* the four directions and the four diagonals
dirsWithDiagonals ==
  << [x |-> 0, y |-> -1], [x |-> 0, y |-> 1], [x |-> -1, y |-> 0], [x |-> 1, y |-> 0],
     [x |-> -1, y |-> -1], [x |-> 1, y |-> -1], [x |-> -1, y |-> 1], [x |-> 1, y |-> 1] >>

\* the four directions taken clockwise: up, right, down, left
dirsClockwise ==
  << [x |-> 0, y |-> -1], [x |-> 1, y |-> 0], [x |-> 0, y |-> 1], [x |-> -1, y |-> 0] >>

dirs == << [x |-> 0, y |-> -1], [x |-> 0, y |-> 1], [x |-> -1, y |-> 0], [x |-> 1, y |-> 0] >>

RECURSIVE neighborsFrom(_, _, _)
neighborsFrom(g, current, i) ==
  IF i > Len(dirs) THEN << >>
  ELSE LET nx == current.x + dirs[i].x
           ny == current.y + dirs[i].y
           rest == neighborsFrom(g, current, i + 1)
           rows == Cardinality(DOMAIN g)
           cols == Cardinality(DOMAIN g[0])
       IN IF nx >= 0 /\ nx < cols /\ ny >= 0 /\ ny < rows /\ g[ny][nx] # WALL
            THEN <<[x |-> nx, y |-> ny]>> \o rest
            ELSE rest

getNeighbors(g, current) == neighborsFrom(g, current, 1)

heuristic(a, b) == Abs(a.x - b.x) + Abs(a.y - b.y)

toKey(c) == <<c.x, c.y>>

fromKey(k) == [x |-> k[1], y |-> k[2]]

MapFromKey(keys) == [i \in 1..Len(keys) |-> fromKey(keys[i])]

RECURSIVE walkParents(_, _, _)
walkParents(parentMap, curr, path) ==
  IF ~Truthy(curr) THEN path
  ELSE walkParents(parentMap, MapGet(parentMap, curr), <<fromKey(curr)>> \o path)

\* the chain as it is walked, goal first: the unshift of line 44 taken for a push
reconstructPathGoalFirst(parentMap, endKey) == Reverse(walkParents(parentMap, endKey, << >>))

reconstructPath(parentMap, endKey) == walkParents(parentMap, endKey, << >>)

\* a generator object that would start over when called after its return
ReturnedRestarts(g) == [gen |-> [g EXCEPT !.pc = "start"], value |-> << >>, done |-> TRUE]

\* a generator that has returned: next() gives {value: undefined, done: true}
Returned(g) == [gen |-> [g EXCEPT !.pc = "done"], value |-> << >>, done |-> TRUE]

Yield(g, pc, frame) == [gen |-> [g EXCEPT !.pc = pc], value |-> <<frame>>, done |-> FALSE]

\* --------------------------------------------------------------- 1. BFS
bfsInit(s) ==
  [pc |-> "start", queue |-> <<s>>, visitedSet |-> <<toKey(s)>>,
   parentMap |-> << >>, current |-> << >>]

RECURSIVE bfsExpand(_, _, _, _)
\* the neighbour loop with parentMap.set moved out of the visited test
bfsExpandRewritesParent(g, neighbors, i, currentKey) ==
  IF i > Len(neighbors) THEN g
  ELSE LET nKey == toKey(neighbors[i])
       IN IF ~SetHas(g.visitedSet, nKey)
            THEN bfsExpand([g EXCEPT !.visitedSet = SetAdd(@, nKey),
                                     !.parentMap = MapSet(@, nKey, currentKey),
                                     !.queue = Append(@, neighbors[i])],
                           neighbors, i + 1, currentKey)
            ELSE bfsExpand([g EXCEPT !.parentMap = MapSet(@, nKey, currentKey)],
                           neighbors, i + 1, currentKey)

\* the neighbour loop of lines 80-88, from the i-th neighbour on
bfsExpand(g, neighbors, i, currentKey) ==
  IF i > Len(neighbors) THEN g
  ELSE LET nKey == toKey(neighbors[i])
       IN IF ~SetHas(g.visitedSet, nKey)
            THEN bfsExpand([g EXCEPT !.visitedSet = SetAdd(@, nKey),
                                     !.parentMap = MapSet(@, nKey, currentKey),
                                     !.queue = Append(@, neighbors[i])],
                           neighbors, i + 1, currentKey)
            ELSE bfsExpand(g, neighbors, i + 1, currentKey)

\* the loop head with pop() for shift(): the newest entry is taken first
bfsLoopNewestFirst(g, e) ==
  IF Len(g.queue) = 0 THEN Returned(g)
  ELSE LET current == Last(g.queue)
           g1 == [g EXCEPT !.queue = Front(@), !.current = <<current>>]
       IN IF current.x = e.x /\ current.y = e.y
            THEN Yield(g1, "final",
                       [visited |-> MapFromKey(g1.visitedSet), frontier |-> << >>,
                        path |-> reconstructPath(g1.parentMap, toKey(current)),
                        current |-> << >>])
            ELSE Yield(g1, "yielded",
                       [visited |-> MapFromKey(g1.visitedSet), frontier |-> g1.queue,
                        path |-> << >>, current |-> <<current>>])

\* the loop head with queue[0] for queue.shift(): the entry is read, never removed
bfsLoopKeepsHead(g, e) ==
  IF Len(g.queue) = 0 THEN Returned(g)
  ELSE LET current == Head(g.queue)
           g1 == [g EXCEPT !.current = <<current>>]
       IN IF current.x = e.x /\ current.y = e.y
            THEN Yield(g1, "final",
                       [visited |-> MapFromKey(g1.visitedSet), frontier |-> << >>,
                        path |-> reconstructPath(g1.parentMap, toKey(current)),
                        current |-> << >>])
            ELSE Yield(g1, "yielded",
                       [visited |-> MapFromKey(g1.visitedSet), frontier |-> g1.queue,
                        path |-> << >>, current |-> <<current>>])

\* the loop head with the progress frame showing the branch to current, as DFS does
bfsLoopShowsBranch(g, e) ==
  IF Len(g.queue) = 0 THEN Returned(g)
  ELSE LET current == Head(g.queue)
           g1 == [g EXCEPT !.queue = Shift(@), !.current = <<current>>]
       IN IF current.x = e.x /\ current.y = e.y
            THEN Yield(g1, "final",
                       [visited |-> MapFromKey(g1.visitedSet), frontier |-> << >>,
                        path |-> reconstructPath(g1.parentMap, toKey(current)),
                        current |-> << >>])
            ELSE Yield(g1, "yielded",
                       [visited |-> MapFromKey(g1.visitedSet), frontier |-> g1.queue,
                        path |-> reconstructPath(g1.parentMap, toKey(current)),
                        current |-> <<current>>])

\* the head of the while loop, lines 60-78
bfsLoop(g, e) ==
  IF Len(g.queue) = 0 THEN Returned(g)
  ELSE LET current == Head(g.queue)
           g1 == [g EXCEPT !.queue = Shift(@), !.current = <<current>>]
       IN IF current.x = e.x /\ current.y = e.y
            THEN Yield(g1, "final",
                       [visited |-> MapFromKey(g1.visitedSet), frontier |-> << >>,
                        path |-> reconstructPath(g1.parentMap, toKey(current)),
                        current |-> << >>])
            ELSE Yield(g1, "yielded",
                       [visited |-> MapFromKey(g1.visitedSet), frontier |-> g1.queue,
                        path |-> << >>, current |-> <<current>>])

\* the neighbour loop run before the yield: dequeue, expand, then the progress frame
bfsGeneratorExpandsFirst(g, gr, e) ==
  IF g.pc \notin {"start", "yielded"} \/ Len(g.queue) = 0 THEN Returned(g)
  ELSE LET current == Head(g.queue)
           g1 == [g EXCEPT !.queue = Shift(@), !.current = <<current>>]
           g2 == bfsExpand(g1, getNeighbors(gr, current), 1, toKey(current))
       IN IF current.x = e.x /\ current.y = e.y
            THEN Yield(g1, "final",
                       [visited |-> MapFromKey(g1.visitedSet), frontier |-> << >>,
                        path |-> reconstructPath(g1.parentMap, toKey(current)),
                        current |-> << >>])
            ELSE Yield(g2, "yielded",
                       [visited |-> MapFromKey(g2.visitedSet), frontier |-> g2.queue,
                        path |-> << >>, current |-> <<current>>])

bfsGenerator(g, gr, e) ==
  CASE g.pc = "start" -> bfsLoop(g, e)
    [] g.pc = "yielded" ->
         bfsLoop(bfsExpand(g, getNeighbors(gr, g.current[1]), 1, toKey(g.current[1])), e)
    [] OTHER -> Returned(g)

\* --------------------------------------------------------------- 2. DFS
dfsInit(s) ==
  [pc |-> "start", stack |-> <<s>>, visitedSet |-> <<toKey(s)>>,
   parentMap |-> << >>, current |-> << >>]

RECURSIVE dfsExpand(_, _, _, _)
\* the neighbour loop marking the node being expanded, not the neighbour pushed
dfsExpandMarksOnExpansion(g, neighbors, i, currentKey) ==
  IF i < 1 THEN g
  ELSE LET nKey == toKey(neighbors[i])
       IN IF ~SetHas(g.visitedSet, nKey)
            THEN dfsExpand([g EXCEPT !.visitedSet = SetAdd(@, currentKey),
                                     !.parentMap = MapSet(@, nKey, currentKey),
                                     !.stack = Append(@, neighbors[i])],
                           neighbors, i - 1, currentKey)
            ELSE dfsExpand(g, neighbors, i - 1, currentKey)

\* the neighbour loop of lines 122-130, from index i down to the first
dfsExpand(g, neighbors, i, currentKey) ==
  IF i < 1 THEN g
  ELSE LET nKey == toKey(neighbors[i])
       IN IF ~SetHas(g.visitedSet, nKey)
            THEN dfsExpand([g EXCEPT !.visitedSet = SetAdd(@, nKey),
                                     !.parentMap = MapSet(@, nKey, currentKey),
                                     !.stack = Append(@, neighbors[i])],
                           neighbors, i - 1, currentKey)
            ELSE dfsExpand(g, neighbors, i - 1, currentKey)

\* the loop head with the progress frame's path left empty, as BFS has it
dfsLoopNoBranch(g, e) ==
  IF Len(g.stack) = 0 THEN Returned(g)
  ELSE LET current == Last(g.stack)
           g1 == [g EXCEPT !.stack = Front(@), !.current = <<current>>]
       IN IF current.x = e.x /\ current.y = e.y
            THEN Yield(g1, "final",
                       [visited |-> MapFromKey(g1.visitedSet), frontier |-> << >>,
                        path |-> reconstructPath(g1.parentMap, toKey(current)),
                        current |-> << >>])
            ELSE Yield(g1, "yielded",
                       [visited |-> MapFromKey(g1.visitedSet), frontier |-> g1.stack,
                        path |-> << >>, current |-> <<current>>])

\* the head of the while loop, lines 102-118
dfsLoop(g, e) ==
  IF Len(g.stack) = 0 THEN Returned(g)
  ELSE LET current == Last(g.stack)
           g1 == [g EXCEPT !.stack = Front(@), !.current = <<current>>]
       IN IF current.x = e.x /\ current.y = e.y
            THEN Yield(g1, "final",
                       [visited |-> MapFromKey(g1.visitedSet), frontier |-> << >>,
                        path |-> reconstructPath(g1.parentMap, toKey(current)),
                        current |-> << >>])
            ELSE Yield(g1, "yielded",
                       [visited |-> MapFromKey(g1.visitedSet), frontier |-> g1.stack,
                        path |-> reconstructPath(g1.parentMap, toKey(current)),
                        current |-> <<current>>])

dfsGenerator(g, gr, e) ==
  CASE g.pc = "start" -> dfsLoop(g, e)
    [] g.pc = "yielded" ->
         LET neighbors == getNeighbors(gr, g.current[1])
         IN dfsLoop(dfsExpand(g, neighbors, Len(neighbors), toKey(g.current[1])), e)
    [] OTHER -> Returned(g)

\* ------------------------------------- 3. weighted search (Dijkstra, A*, Greedy)
\* a sort that is not stable: the order of entries of equal key is not a function
\* of the array alone (here it follows the parity of the calls made so far)
SortedIndexUnstable(keyOf, k) ==
  CHOOSE i \in DOMAIN keyOf :
    Cardinality({j \in DOMAIN keyOf :
                   keyOf[j] < keyOf[i]
                   \/ (keyOf[j] = keyOf[i] /\ IF tick THEN j > i ELSE j < i)}) = k - 1

\* Array.prototype.sort with an ascending comparator is stable: the index of the
\* entry the sort puts at position k, entries of lower key first and entries of
\* equal key in their order
SortedIndex(keyOf, k) ==
  CHOOSE i \in DOMAIN keyOf :
    Cardinality({j \in DOMAIN keyOf :
                   keyOf[j] < keyOf[i] \/ (keyOf[j] = keyOf[i] /\ j < i)}) = k - 1

\* the comparator with its operands swapped, b.priority - a.priority: descending
SortByPriorityDescending(pq) ==
  LET keyOf == [i \in 1..Len(pq) |-> 0 - pq[i].priority]
  IN [k \in 1..Len(pq) |-> pq[SortedIndex(keyOf, k)]]

\* a sort that puts entries of equal priority in the reverse of their order
SortByPriorityTiesReversed(pq) ==
  LET keyOf == [i \in 1..Len(pq) |-> pq[Len(pq) + 1 - i].priority]
  IN [k \in 1..Len(pq) |-> pq[Len(pq) + 1 - SortedIndex(keyOf, k)]]

\* pq.sort((a, b) => a.priority - b.priority)
SortByPriority(pq) ==
  LET keyOf == [i \in 1..Len(pq) |-> pq[i].priority]
  IN [k \in 1..Len(pq) |-> pq[SortedIndex(keyOf, k)]]

PqCoords(pq) == [i \in 1..Len(pq) |-> pq[i].coord]

\* the priority with the heuristic added unweighted
PriorityIgnoresWeight(config, newG, h) ==
  (IF config.usePathCost THEN newG ELSE 0) + h

Priority(config, newG, h) ==
  (IF config.usePathCost THEN newG ELSE 0) + (config.heuristicWeight * h)

weightedInit(s, config) ==
  [pc |-> "start", config |-> config,
   pq |-> <<[coord |-> s, priority |-> 0, g |-> 0]>>,
   distMap |-> <<<<toKey(s), 0>>>>, parentMap |-> << >>, visitedSet |-> << >>,
   current |-> << >>, currentG |-> 0]

RECURSIVE weightedRelax(_, _, _, _, _)
\* the relaxation with <= for < in its test: a neighbour reached again at the cost it
\* already has is given a new parent and a new entry
weightedRelaxOnEqual(g, neighbors, i, currentKey, e) ==
  IF i > Len(neighbors) THEN g
  ELSE LET n == neighbors[i]
           nKey == toKey(n)
           newG == g.currentG + 1
           existingG == IF MapHas(g.distMap, nKey) THEN MapGet(g.distMap, nKey) ELSE Infinity
       IN IF SetHas(g.visitedSet, nKey)
            THEN weightedRelax(g, neighbors, i + 1, currentKey, e)
          ELSE IF newG <= existingG
            THEN weightedRelax(
                   [g EXCEPT !.distMap = MapSet(@, nKey, newG),
                             !.parentMap = MapSet(@, nKey, currentKey),
                             !.pq = Append(@, [coord |-> n,
                                               priority |-> Priority(g.config, newG, heuristic(n, e)),
                                               g |-> newG])],
                   neighbors, i + 1, currentKey, e)
          ELSE weightedRelax(g, neighbors, i + 1, currentKey, e)

\* the relaxation loop of lines 183-203, from the i-th neighbour on
weightedRelax(g, neighbors, i, currentKey, e) ==
  IF i > Len(neighbors) THEN g
  ELSE LET n == neighbors[i]
           nKey == toKey(n)
           newG == g.currentG + 1
           existingG == IF MapHas(g.distMap, nKey) THEN MapGet(g.distMap, nKey) ELSE Infinity
       IN IF SetHas(g.visitedSet, nKey)
            THEN weightedRelax(g, neighbors, i + 1, currentKey, e)
          ELSE IF newG < existingG
            THEN weightedRelax(
                   [g EXCEPT !.distMap = MapSet(@, nKey, newG),
                             !.parentMap = MapSet(@, nKey, currentKey),
                             !.pq = Append(@, [coord |-> n,
                                               priority |-> Priority(g.config, newG, heuristic(n, e)),
                                               g |-> newG])],
                   neighbors, i + 1, currentKey, e)
          ELSE weightedRelax(g, neighbors, i + 1, currentKey, e)

RECURSIVE weightedLoop(_, _)
\* the loop head without the continue of line 163: an extracted entry is reported
\* and expanded whether or not its coordinate is closed
weightedLoopNoSkip(g, e) ==
  IF Len(g.pq) = 0 THEN Returned(g)
  ELSE LET sorted == SortByPriority(g.pq)
           entry == Head(sorted)
           current == entry.coord
           currentKey == toKey(current)
           g1 == [g EXCEPT !.pq = Shift(sorted), !.current = <<current>>,
                           !.currentG = entry.g]
           g2 == [g1 EXCEPT !.visitedSet = SetAdd(@, currentKey)]
       IN IF current.x = e.x /\ current.y = e.y
            THEN Yield(g2, "final",
                       [visited |-> MapFromKey(g2.visitedSet), frontier |-> << >>,
                        path |-> reconstructPath(g2.parentMap, currentKey),
                        current |-> << >>])
          ELSE Yield(g2, "yielded",
                     [visited |-> MapFromKey(g2.visitedSet), frontier |-> PqCoords(g2.pq),
                      path |-> << >>, current |-> <<current>>])

\* the head of the while loop, lines 157-180
weightedLoop(g, e) ==
  IF Len(g.pq) = 0 THEN Returned(g)
  ELSE LET sorted == SortByPriority(g.pq)
           entry == Head(sorted)
           current == entry.coord
           currentKey == toKey(current)
           g1 == [g EXCEPT !.pq = Shift(sorted), !.current = <<current>>,
                           !.currentG = entry.g]
           g2 == [g1 EXCEPT !.visitedSet = SetAdd(@, currentKey)]
       IN IF SetHas(g.visitedSet, currentKey) THEN weightedLoop(g1, e)
          ELSE IF current.x = e.x /\ current.y = e.y
            THEN Yield(g2, "final",
                       [visited |-> MapFromKey(g2.visitedSet), frontier |-> << >>,
                        path |-> reconstructPath(g2.parentMap, currentKey),
                        current |-> << >>])
          ELSE Yield(g2, "yielded",
                     [visited |-> MapFromKey(g2.visitedSet), frontier |-> PqCoords(g2.pq),
                      path |-> << >>, current |-> <<current>>])

weightedSearchGenerator(g, gr, e) ==
  CASE g.pc = "start" -> weightedLoop(g, e)
    [] g.pc = "yielded" ->
         weightedLoop(weightedRelax(g, getNeighbors(gr, g.current[1]), 1,
                                    toKey(g.current[1]), e), e)
    [] OTHER -> Returned(g)

\* ------------------------------------------------- 4. bidirectional BFS
bidirectionalInit(s, e) ==
  [pc |-> "start", startQueue |-> <<s>>, endQueue |-> <<e>>,
   startVisited |-> <<<<toKey(s), EmptyString>>>>,
   endVisited |-> <<<<toKey(e), EmptyString>>>>,
   currStart |-> << >>, currEnd |-> << >>]

\* the concatenation without slice(1)
fullPathNoSlice(pathStart, pathEnd) == pathStart \o Reverse(pathEnd)

\* [...pathStart, ...pathEnd.slice(1).reverse()]
fullPath(pathStart, pathEnd) == pathStart \o Reverse(Tail(pathEnd))

bidiVisited(g) ==
  MapFromKey(MapKeys(g.startVisited)) \o MapFromKey(MapKeys(g.endVisited))

\* the neighbour loops of lines 248-254 and 277-283
RECURSIVE bidiExpandStart(_, _, _, _)
bidiExpandStart(g, neighbors, i, currKey) ==
  IF i > Len(neighbors) THEN g
  ELSE LET nKey == toKey(neighbors[i])
       IN IF ~MapHas(g.startVisited, nKey)
            THEN bidiExpandStart([g EXCEPT !.startVisited = MapSet(@, nKey, currKey),
                                           !.startQueue = Append(@, neighbors[i])],
                                 neighbors, i + 1, currKey)
            ELSE bidiExpandStart(g, neighbors, i + 1, currKey)

RECURSIVE bidiExpandEnd(_, _, _, _)
\* the end side's neighbour loop recording its parents in the start side's map too
bidiExpandEndIntoStartMap(g, neighbors, i, currKey) ==
  IF i > Len(neighbors) THEN g
  ELSE LET nKey == toKey(neighbors[i])
       IN IF ~MapHas(g.endVisited, nKey)
            THEN bidiExpandEnd([g EXCEPT !.endVisited = MapSet(@, nKey, currKey),
                                         !.startVisited = MapSet(@, nKey, currKey),
                                         !.endQueue = Append(@, neighbors[i])],
                               neighbors, i + 1, currKey)
            ELSE bidiExpandEnd(g, neighbors, i + 1, currKey)

bidiExpandEnd(g, neighbors, i, currKey) ==
  IF i > Len(neighbors) THEN g
  ELSE LET nKey == toKey(neighbors[i])
       IN IF ~MapHas(g.endVisited, nKey)
            THEN bidiExpandEnd([g EXCEPT !.endVisited = MapSet(@, nKey, currKey),
                                         !.endQueue = Append(@, neighbors[i])],
                               neighbors, i + 1, currKey)
            ELSE bidiExpandEnd(g, neighbors, i + 1, currKey)

bidiMeet(g, pc, key) ==
  Yield(g, pc,
        [visited |-> bidiVisited(g), frontier |-> << >>,
         path |-> fullPath(reconstructPath(g.startVisited, key),
                           reconstructPath(g.endVisited, key)),
         current |-> << >>])

\* the end-side half of one loop iteration, lines 258-291
bidiEndSide(g, gr) ==
  IF Len(g.endQueue) > 0
    THEN LET currEnd == Head(g.endQueue)
             currEndKey == toKey(currEnd)
             g1 == [g EXCEPT !.endQueue = Shift(@), !.currEnd = <<currEnd>>]
             g2 == bidiExpandEnd(g1, getNeighbors(gr, currEnd), 1, currEndKey)
         IN IF MapHas(g1.startVisited, currEndKey)
              THEN bidiMeet(g1, "finalEnd", currEndKey)
              ELSE Yield(g2, "yielded",
                         [visited |-> bidiVisited(g2),
                          frontier |-> g2.startQueue \o g2.endQueue,
                          path |-> << >>, current |-> << >>])
    ELSE Yield(g, "yielded",
               [visited |-> bidiVisited(g), frontier |-> g.startQueue \o g.endQueue,
                path |-> << >>, current |-> << >>])

\* the loop with || for && in its condition: it runs while either queue has entries
bidiLoopWhileEither(g, gr) ==
  IF ~(Len(g.startQueue) > 0 \/ Len(g.endQueue) > 0) THEN Returned(g)
  ELSE IF Len(g.startQueue) > 0
    THEN LET currStart == Head(g.startQueue)
             currStartKey == toKey(currStart)
             g1 == [g EXCEPT !.startQueue = Shift(@), !.currStart = <<currStart>>]
         IN IF MapHas(g1.endVisited, currStartKey)
              THEN bidiMeet(g1, "finalStart", currStartKey)
              ELSE bidiEndSide(bidiExpandStart(g1, getNeighbors(gr, currStart), 1,
                                               currStartKey), gr)
    ELSE bidiEndSide(g, gr)

\* one iteration of the while loop, lines 219-292
bidiLoop(g, gr) ==
  IF ~(Len(g.startQueue) > 0 /\ Len(g.endQueue) > 0) THEN Returned(g)
  ELSE IF Len(g.startQueue) > 0
    THEN LET currStart == Head(g.startQueue)
             currStartKey == toKey(currStart)
             g1 == [g EXCEPT !.startQueue = Shift(@), !.currStart = <<currStart>>]
         IN IF MapHas(g1.endVisited, currStartKey)
              THEN bidiMeet(g1, "finalStart", currStartKey)
              ELSE bidiEndSide(bidiExpandStart(g1, getNeighbors(gr, currStart), 1,
                                               currStartKey), gr)
    ELSE bidiEndSide(g, gr)

bidirectionalGenerator(g, gr) ==
  CASE g.pc \in {"start", "yielded"} -> bidiLoop(g, gr)
    [] OTHER -> Returned(g)

\* ---------------------------------------------------------------- 5. IDA*
\* neighbors.sort((a, b) => heuristic(a, end) - heuristic(b, end)): stable
SortByHeuristic(neighbors, e) ==
  LET keyOf == [i \in 1..Len(neighbors) |-> heuristic(neighbors[i], e)]
  IN [k \in 1..Len(neighbors) |-> neighbors[SortedIndex(keyOf, k)]]

\* the first bound taken generously, beyond any path of the grid
idaStarInitLooseBound(s, e) ==
  [pc |-> "start", bound |-> heuristic(s, e) + Cols * Rows, pathStack |-> <<s>>,
   visitedKeys |-> <<toKey(s)>>, calls |-> << >>]

\* calls: the suspended activations of search(), outermost first; each holds
\* its node, its g, its sorted neighbours, the index of the neighbour the for
\* loop is at, and its local min
idaStarInit(s, e) ==
  [pc |-> "start", bound |-> heuristic(s, e), pathStack |-> <<s>>,
   visitedKeys |-> <<toKey(s)>>, calls |-> << >>]

RECURSIVE idaSearch(_, _, _, _, _, _)
RECURSIVE idaFor(_, _, _, _)
RECURSIVE idaReturn(_, _, _, _, _)

\* entry of search(node, g), lines 308-322
idaSearch(g, node, gCost, gr, s, e) ==
  LET f == gCost + heuristic(node, e)
  IN IF f > g.bound THEN idaReturn(g, [found |-> FALSE, cost |-> f], gr, s, e)
     ELSE IF node.x = e.x /\ node.y = e.y
       THEN idaReturn(g, [found |-> TRUE, cost |-> f], gr, s, e)
     ELSE idaFor([g EXCEPT !.calls = Append(@,
                     [node |-> node, g |-> gCost,
                      neighbors |-> SortByHeuristic(getNeighbors(gr, node), e),
                      i |-> 1, min |-> Infinity])],
                 gr, s, e)

\* a for loop that skips the neighbours in visitedKeys, not those on pathStack
idaForSkipsVisited(g, gr, s, e) ==
  LET top == Last(g.calls)
  IN IF top.i > Len(top.neighbors)
       THEN idaReturn([g EXCEPT !.calls = Front(@)],
                      [found |-> FALSE, cost |-> top.min], gr, s, e)
     ELSE LET n == top.neighbors[top.i]
              g1 == [g EXCEPT !.pathStack = Append(@, n),
                              !.visitedKeys = SetAdd(@, toKey(n))]
          IN IF SetHas(g.visitedKeys, toKey(n))
               THEN idaFor([g EXCEPT !.calls[Len(g.calls)].i = @ + 1], gr, s, e)
               ELSE Yield(g1, "yielded",
                          [visited |-> MapFromKey(g1.visitedKeys), frontier |-> <<n>>,
                           path |-> g1.pathStack, current |-> <<n>>])

\* the for loop of the innermost activation, lines 324-346
idaFor(g, gr, s, e) ==
  LET top == Last(g.calls)
  IN IF top.i > Len(top.neighbors)
       THEN idaReturn([g EXCEPT !.calls = Front(@)],
                      [found |-> FALSE, cost |-> top.min], gr, s, e)
     ELSE LET n == top.neighbors[top.i]
              g1 == [g EXCEPT !.pathStack = Append(@, n),
                              !.visitedKeys = SetAdd(@, toKey(n))]
          IN IF SeqHas(g.pathStack, n)
               THEN idaFor([g EXCEPT !.calls[Len(g.calls)].i = @ + 1], gr, s, e)
               ELSE Yield(g1, "yielded",
                          [visited |-> MapFromKey(g1.visitedKeys), frontier |-> <<n>>,
                           path |-> g1.pathStack, current |-> <<n>>])

\* a return that clears visitedKeys when the bound is raised, to show the restart
idaReturnClearsVisited(g, res, gr, s, e) ==
  IF Len(g.calls) = 0
    THEN IF res.found
           THEN Yield(g, "final",
                      [visited |-> MapFromKey(g.visitedKeys), frontier |-> << >>,
                       path |-> g.pathStack, current |-> << >>])
         ELSE IF res.cost = Infinity THEN Returned(g)
         ELSE idaSearch([g EXCEPT !.bound = res.cost, !.visitedKeys = <<toKey(s)>>],
                        s, 0, gr, s, e)
  ELSE LET top == Last(g.calls)
           k == Len(g.calls)
       IN IF res.found
            THEN idaReturn([g EXCEPT !.calls = Front(@)],
                           [found |-> TRUE, cost |-> res.cost], gr, s, e)
            ELSE idaFor([g EXCEPT !.calls[k].min = IF res.cost < @ THEN res.cost ELSE @,
                                  !.calls[k].i = @ + 1,
                                  !.pathStack = Front(@)],
                        gr, s, e)

\* a return that raises the bound by one instead of to the lowest pruned cost
idaReturnBoundPlusOne(g, res, gr, s, e) ==
  IF Len(g.calls) = 0
    THEN IF res.found
           THEN Yield(g, "final",
                      [visited |-> MapFromKey(g.visitedKeys), frontier |-> << >>,
                       path |-> g.pathStack, current |-> << >>])
         ELSE IF res.cost = Infinity THEN Returned(g)
         ELSE idaSearch([g EXCEPT !.bound = @ + 1], s, 0, gr, s, e)
  ELSE LET top == Last(g.calls)
           k == Len(g.calls)
       IN IF res.found
            THEN idaReturn([g EXCEPT !.calls = Front(@)],
                           [found |-> TRUE, cost |-> res.cost], gr, s, e)
            ELSE idaFor([g EXCEPT !.calls[k].min = IF res.cost < @ THEN res.cost ELSE @,
                                  !.calls[k].i = @ + 1,
                                  !.pathStack = Front(@)],
                        gr, s, e)

\* a search() call returns res: to the for loop of its caller (lines 338-343),
\* or, from the outermost call, to the while (true) loop (lines 362-375)
idaReturn(g, res, gr, s, e) ==
  IF Len(g.calls) = 0
    THEN IF res.found
           THEN Yield(g, "final",
                      [visited |-> MapFromKey(g.visitedKeys), frontier |-> << >>,
                       path |-> g.pathStack, current |-> << >>])
         ELSE IF res.cost = Infinity THEN Returned(g)
         ELSE idaSearch([g EXCEPT !.bound = res.cost], s, 0, gr, s, e)
  ELSE LET top == Last(g.calls)
           k == Len(g.calls)
       IN IF res.found
            THEN idaReturn([g EXCEPT !.calls = Front(@)],
                           [found |-> TRUE, cost |-> res.cost], gr, s, e)
            ELSE idaFor([g EXCEPT !.calls[k].min = IF res.cost < @ THEN res.cost ELSE @,
                                  !.calls[k].i = @ + 1,
                                  !.pathStack = Front(@)],
                        gr, s, e)

idaStarGenerator(g, gr, s, e) ==
  CASE g.pc = "start" -> idaSearch(g, s, 0, gr, s, e)
    [] g.pc = "yielded" ->
         LET top == Last(g.calls)
         IN idaSearch(g, top.neighbors[top.i], top.g + 1, gr, s, e)
    [] OTHER -> Returned(g)

\* ------------------------------------------------------------- factory
createAlgorithmGenerator(type, s, e) ==
  CASE type = "BFS" -> bfsInit(s)
    [] type = "DFS" -> dfsInit(s)
    [] type = "DIJKSTRA" -> weightedInit(s, [usePathCost |-> TRUE, heuristicWeight |-> 0])
    [] type = "ASTAR" -> weightedInit(s, [usePathCost |-> TRUE, heuristicWeight |-> 1])
    [] type = "GREEDY" -> weightedInit(s, [usePathCost |-> FALSE, heuristicWeight |-> 1])
    [] type = "BIDIRECTIONAL" -> bidirectionalInit(s, e)
    [] type = "IDA_STAR" -> idaStarInit(s, e)
    [] OTHER -> bfsInit(s)

\* ------------------------------------------------- the parts beside a run
\* no second instance, no driver, no maze service call, no carver at work
NoPeer == [pc |-> "none"]

NoDriver == [pc |-> "none"]

NoService == [pc |-> "none"]

NoCarver == [pc |-> "none"]

EngineOnly ==
  /\ peer = NoPeer
  /\ driver = NoDriver
  /\ service = NoService
  /\ carver = NoCarver

\* where a second instance exists, the next() calls made on the first are counted
Counted(p) == IF p = NoPeer THEN p ELSE [p EXCEPT !.firstCalls = @ + 1]

\* ---------------------------------------------------------------- grids
\* a finished grid: walls anywhere, start and end on non-wall cells
MakeGrid(walls, s, e) ==
  [cy \in 0..(Rows - 1) |-> [cx \in 0..(Cols - 1) |->
     IF cx = e.x /\ cy = e.y THEN END
     ELSE IF cx = s.x /\ cy = s.y THEN START
     ELSE IF [x |-> cx, y |-> cy] \in walls THEN WALL
     ELSE EMPTY]]

Init ==
  \E walls \in SUBSET Cells : \E s \in Cells \ walls : \E e \in Cells \ walls :
  \E type \in AlgorithmType :
    /\ grid = MakeGrid(walls, s, e)
    /\ start = s
    /\ end = e
    /\ algorithm = type
    /\ gen = createAlgorithmGenerator(type, s, e)
    /\ value = << >>
    /\ done = FALSE
    /\ lastValue = << >>
    /\ extraCalls = 0
    /\ tick = FALSE
    /\ EngineOnly

\* the driver's generatorRef.current.next(): r is what the generator returns.
\* Calls on an instance that has already reported done are counted, and capped.
CanAdvance == done => extraCalls < MaxExtraCalls

\* a step that marks the frame's current cell in the grid itself
StepMarksGrid(r) ==
  /\ CanAdvance
  /\ gen' = r.gen
  /\ value' = r.value
  /\ done' = r.done
  /\ lastValue' = IF r.value # << >> THEN r.value ELSE lastValue
  /\ extraCalls' = IF done THEN extraCalls + 1 ELSE extraCalls
  /\ tick' = ~tick
  /\ peer' = Counted(peer)
  /\ grid' = IF r.value # << >> /\ r.value[1].current # << >>
               THEN [grid EXCEPT ![r.value[1].current[1].y][r.value[1].current[1].x] = EMPTY]
               ELSE grid
  /\ UNCHANGED <<start, end, algorithm, driver, service, carver>>

Step(r) ==
  /\ CanAdvance
  /\ gen' = r.gen
  /\ value' = r.value
  /\ done' = r.done
  /\ lastValue' = IF r.value # << >> THEN r.value ELSE lastValue
  /\ extraCalls' = IF done THEN extraCalls + 1 ELSE extraCalls
  /\ tick' = ~tick
  /\ peer' = Counted(peer)
  /\ UNCHANGED <<grid, start, end, algorithm, driver, service, carver>>

BfsNext == algorithm = "BFS" /\ \E r \in {bfsGenerator(gen, grid, end)} : Step(r)

DfsNext == algorithm = "DFS" /\ \E r \in {dfsGenerator(gen, grid, end)} : Step(r)

WeightedNext ==
  /\ algorithm \in {"DIJKSTRA", "ASTAR", "GREEDY"}
  /\ \E r \in {weightedSearchGenerator(gen, grid, end)} : Step(r)

BidirectionalNext ==
  algorithm = "BIDIRECTIONAL" /\ \E r \in {bidirectionalGenerator(gen, grid)} : Step(r)

IdaStarNext ==
  algorithm = "IDA_STAR" /\ \E r \in {idaStarGenerator(gen, grid, start, end)} : Step(r)

Next == BfsNext \/ DfsNext \/ WeightedNext \/ BidirectionalNext \/ IdaStarNext

Spec == Init /\ [][Next]_vars

\* the status the driver's step sets: RUNNING from handleRun on, and on done
\* COMPLETED when the last frame kept has a non-empty path, NO_PATH otherwise
Status ==
  IF ~done THEN "RUNNING"
  ELSE IF lastValue # << >> /\ Len(lastValue[1].path) > 0 THEN "COMPLETED"
  ELSE "NO_PATH"

\* Runs told from before construction: handleRun creates the instance for the
\* selected algorithm on the current maze, and the step timer then keeps calling
\* next() on it until it reports done.
NotCreated == [pc |-> "none"]

RunInit ==
  /\ grid = MakeGrid({}, [x |-> 0, y |-> 0], [x |-> 0, y |-> 0])
  /\ start = [x |-> 0, y |-> 0]
  /\ end = [x |-> 0, y |-> 0]
  /\ algorithm = "NONE"
  /\ gen = NotCreated
  /\ value = << >>
  /\ done = FALSE
  /\ lastValue = << >>
  /\ extraCalls = 0
  /\ tick = FALSE
  /\ EngineOnly

Create ==
  /\ gen = NotCreated
  /\ \E walls \in SUBSET Cells : \E s \in Cells \ walls : \E e \in Cells \ walls :
     \E type \in AlgorithmType :
       /\ grid' = MakeGrid(walls, s, e)
       /\ start' = s
       /\ end' = e
       /\ algorithm' = type
       /\ gen' = createAlgorithmGenerator(type, s, e)
  /\ UNCHANGED <<value, done, lastValue, extraCalls, tick, peer, driver, service, carver>>

RunNext == Create \/ Next

\* A next() call: every Next step flips tick and no other step does, and Next
\* is enabled exactly when an instance exists and CanAdvance holds (next() is
\* total), so weak fairness of Call is weak fairness of Next.
Call == gen # NotCreated /\ CanAdvance /\ tick' = ~tick

FairSpec == RunInit /\ [][RunNext]_vars /\ WF_tick(Call)

\* Instances made from arguments nothing has checked: createAlgorithmGenerator
\* takes any grid and any two coordinates, so a start or goal may lie on a wall
\* cell or outside the grid.  Here exactly one of the two is such a coordinate.
Outside == {[x |-> 0 - 1, y |-> 0], [x |-> 0, y |-> Rows]}

InBounds(c) == c.x >= 0 /\ c.x < Cols /\ c.y >= 0 /\ c.y < Rows

\* a grid whose wall cells stay walls under the start and goal marks
MakeUncheckedGrid(walls, s, e) ==
  [cy \in 0..(Rows - 1) |-> [cx \in 0..(Cols - 1) |->
     IF [x |-> cx, y |-> cy] \in walls THEN WALL
     ELSE IF cx = e.x /\ cy = e.y THEN END
     ELSE IF cx = s.x /\ cy = s.y THEN START
     ELSE EMPTY]]

UncheckedInit ==
  \E walls \in SUBSET Cells : \E s \in Cells \cup Outside : \E e \in Cells \cup Outside :
  \E type \in AlgorithmType :
    /\ (s \in Cells \ walls) # (e \in Cells \ walls)
    /\ grid = MakeUncheckedGrid(walls, s, e)
    /\ start = s
    /\ end = e
    /\ algorithm = type
    /\ gen = createAlgorithmGenerator(type, s, e)
    /\ value = << >>
    /\ done = FALSE
    /\ lastValue = << >>
    /\ extraCalls = 0
    /\ tick = FALSE
    /\ EngineOnly

UncheckedSpec == UncheckedInit /\ [][Next]_vars

\* next() on an instance of the given type
Advance(type, g, gr, s, e) ==
  CASE type = "BFS" -> bfsGenerator(g, gr, e)
    [] type = "DFS" -> dfsGenerator(g, gr, e)
    [] type \in {"DIJKSTRA", "ASTAR", "GREEDY"} -> weightedSearchGenerator(g, gr, e)
    [] type = "BIDIRECTIONAL" -> bidirectionalGenerator(g, gr)
    [] type = "IDA_STAR" -> idaStarGenerator(g, gr, s, e)

\* a second instance, constructed on its own from the same grid, start, goal and
\* selector and advanced call by call from r: does it come to the result
\* [gen, value, done] the first instance is at?
RECURSIVE SecondInstanceReaches(_)
SecondInstanceReaches(r) ==
  IF r.gen = gen /\ r.value = value /\ r.done = done THEN TRUE
  ELSE IF r.done THEN FALSE
  ELSE SecondInstanceReaches(Advance(algorithm, r.gen, grid, start, end))

\* ------------------------------------------------------- two instances
\* two instances created by the factory on the same grid, start and goal, each
\* advanced by its own next() calls in any interleaving
MaxPairWalls == 1

\* both instances start from the corner cell
PairStarts == {[x |-> 0, y |-> 0]}

PairInit ==
  \E walls \in {w \in SUBSET Cells : Cardinality(w) <= MaxPairWalls} :
  \E s \in PairStarts \ walls : \E e \in Cells \ walls :
  \E type \in AlgorithmType : \E type2 \in AlgorithmType :
    /\ grid = MakeGrid(walls, s, e)
    /\ start = s
    /\ end = e
    /\ algorithm = type
    /\ gen = createAlgorithmGenerator(type, s, e)
    /\ value = << >>
    /\ done = FALSE
    /\ lastValue = << >>
    /\ extraCalls = 0
    /\ tick = FALSE
    /\ peer = [pc |-> "created", algorithm |-> type2,
               gen |-> createAlgorithmGenerator(type2, s, e),
               value |-> << >>, done |-> FALSE,
               calls |-> 0, extraCalls |-> 0, firstCalls |-> 0]
    /\ driver = NoDriver
    /\ service = NoService
    /\ carver = NoCarver

\* a second instance that finds the structures of the first where both run the
\* same algorithm
PeerAdvanceOnShared(p) ==
  IF p.algorithm = algorithm THEN Advance(algorithm, gen, grid, start, end)
  ELSE Advance(p.algorithm, p.gen, grid, start, end)

\* what a next() call on the second instance returns: the instance resumes
\* from its own suspended state, on the grid it was created with
PeerAdvance(p) == Advance(p.algorithm, p.gen, grid, start, end)

\* a next() call on the second instance
PeerNext ==
  /\ peer # NoPeer
  /\ peer.done => peer.extraCalls < MaxExtraCalls
  /\ \E r \in {PeerAdvance(peer)} :
       peer' = [peer EXCEPT !.gen = r.gen, !.value = r.value, !.done = r.done,
                            !.calls = @ + 1,
                            !.extraCalls = IF peer.done THEN @ + 1 ELSE @]
  /\ UNCHANGED <<grid, start, end, algorithm, gen, value, done, lastValue,
                 extraCalls, tick, driver, service, carver>>

PairNext == Next \/ PeerNext

PairSpec == PairInit /\ [][PairNext]_vars

\* --------------------------------------------------------------- driver
\* The App component: maze, stats.status, animationState, generatorRef (gen),
\* timerRef, and the timers window.setTimeout holds. A timer remembers the step
\* closure it will call: the handleRun call that made it (run) and that closure's
\* lastValue. current is the handleRun call whose run has not been abandoned (0:
\* none), stepBy the handleRun call whose step closure executed last.
MaxRuns == 2

MaxDriverWalls == 1

NoAnimation == [visited |-> << >>, frontier |-> << >>, path |-> << >>, currentHead |-> << >>]

\* the mazes generateMaze may hand to the driver
DriverMazes ==
  {MakeGrid(walls, [x |-> 0, y |-> 0], [x |-> Cols - 1, y |-> Rows - 1]) :
     walls \in {w \in SUBSET (Cells \ {[x |-> 0, y |-> 0], [x |-> Cols - 1, y |-> Rows - 1]}) :
                  Cardinality(w) <= MaxDriverWalls}}

\* the component as constructed, before the initial-load effect
DriverInit ==
  /\ grid = MakeGrid({}, [x |-> 0, y |-> 0], [x |-> Cols - 1, y |-> Rows - 1])
  /\ start = [x |-> 0, y |-> 0]
  /\ end = [x |-> Cols - 1, y |-> Rows - 1]
  /\ algorithm = "BFS"
  /\ gen = NotCreated
  /\ value = << >>
  /\ done = FALSE
  /\ lastValue = << >>
  /\ extraCalls = 0
  /\ tick = FALSE
  /\ peer = NoPeer
  /\ driver = [pc |-> "mounted", maze |-> FALSE, timerRef |-> 0, pending |-> {},
               nextId |-> 1, runs |-> 0, current |-> 0, stepBy |-> 0,
               status |-> "IDLE", animationState |-> NoAnimation,
               visitedCount |-> 0, pathLength |-> 0]
  /\ service = NoService
  /\ carver = NoCarver

\* a reset that forgets the timer without clearing it
ClearTimerForgets(d) == [d EXCEPT !.timerRef = 0]

\* if (timerRef.current) { window.clearTimeout(timerRef.current); timerRef.current = null }
ClearTimer(d) ==
  IF d.timerRef # 0
    THEN [d EXCEPT !.pending = {t \in @ : t.id # d.timerRef}, !.timerRef = 0]
    ELSE d

\* the rest of handleReset: animation and counts cleared, status IDLE
ResetState(d) ==
  [ClearTimer(d) EXCEPT !.animationState = NoAnimation, !.visitedCount = 0,
                        !.pathLength = 0, !.status = "IDLE", !.current = 0]

\* step() of the closure made by handleRun call run, whose lastValue is lv, with
\* generatorRef.current = g, an instance of type: the new generatorRef.current,
\* value, done, lastValue and component state
DriverStep(d, type, g, run, lv) ==
  IF g = NotCreated
    THEN [gen |-> g, value |-> value, done |-> done, lastValue |-> lv,
          driver |-> [d EXCEPT !.stepBy = run]]
  ELSE
    LET r == Advance(type, g, grid, start, end)
        lv2 == IF r.value # << >> THEN r.value ELSE lv
        d1 == [d EXCEPT !.stepBy = run]
    IN [gen |-> r.gen, value |-> r.value, done |-> r.done, lastValue |-> lv2,
        driver |->
          IF r.done
            THEN IF lv2 # << >> /\ Len(lv2[1].path) > 0
                   THEN [d1 EXCEPT !.animationState =
                                      [visited |-> lv2[1].visited, frontier |-> << >>,
                                       path |-> lv2[1].path, currentHead |-> << >>],
                                   !.status = "COMPLETED",
                                   !.visitedCount = Len(lv2[1].visited),
                                   !.pathLength = Len(lv2[1].path)]
                   ELSE [d1 EXCEPT !.status = "NO_PATH"]
          ELSE IF r.value = << >> THEN d1
          ELSE [d1 EXCEPT !.animationState =
                             [visited |-> r.value[1].visited,
                              frontier |-> r.value[1].frontier,
                              path |-> r.value[1].path,
                              currentHead |-> r.value[1].current],
                          !.visitedCount = Len(r.value[1].visited),
                          !.pathLength = Len(r.value[1].path),
                          !.timerRef = d.nextId,
                          !.pending = @ \cup {[id |-> d.nextId, run |-> run, lastValue |-> lv2]},
                          !.nextId = @ + 1]]

\* handleGenerateMaze: also the initial load
HandleGenerateMaze ==
  /\ driver # NoDriver
  /\ \E m \in DriverMazes : grid' = m
  /\ driver' = [ResetState(driver) EXCEPT !.maze = TRUE]
  /\ gen' = NotCreated
  /\ UNCHANGED <<start, end, algorithm, value, done, lastValue, extraCalls, tick,
                 peer, service, carver>>

HandleReset ==
  /\ driver # NoDriver
  /\ driver' = ResetState(driver)
  /\ gen' = NotCreated
  /\ UNCHANGED <<grid, start, end, algorithm, value, done, lastValue, extraCalls, tick,
                 peer, service, carver>>

\* handleRun with the algorithm selected at the time: reset, create, first step()
HandleRun ==
  /\ driver # NoDriver
  /\ driver.maze
  /\ driver.runs < MaxRuns
  /\ \E type \in AlgorithmType :
       /\ algorithm' = type
       /\ \E b \in {DriverStep([ResetState(driver) EXCEPT !.status = "RUNNING",
                                                           !.runs = @ + 1,
                                                           !.current = driver.runs + 1],
                                type, createAlgorithmGenerator(type, start, end),
                                driver.runs + 1, << >>)} :
            /\ gen' = b.gen
            /\ value' = b.value
            /\ done' = b.done
            /\ lastValue' = b.lastValue
            /\ driver' = b.driver
  /\ tick' = ~tick
  /\ UNCHANGED <<grid, start, end, extraCalls, peer, service, carver>>

\* a timer the window holds comes due and calls its step closure
TimerFires ==
  /\ driver # NoDriver
  /\ \E t \in driver.pending :
       \E b \in {DriverStep([driver EXCEPT !.pending = @ \ {t}], algorithm, gen,
                              t.run, t.lastValue)} :
         /\ gen' = b.gen
         /\ value' = b.value
         /\ done' = b.done
         /\ lastValue' = b.lastValue
         /\ driver' = b.driver
  /\ tick' = ~tick
  /\ UNCHANGED <<grid, start, end, algorithm, extraCalls, peer, service, carver>>

DriverNext == HandleGenerateMaze \/ HandleReset \/ HandleRun \/ TimerFires

DriverSpec == DriverInit /\ [][DriverNext]_vars

\* --------------------------------------------------------- maze service
\* generateMazeFromPrompt after the model's answer has been parsed and its
\* dimensions validated: force start and end open, check, repair, convert.
\* A raw grid is rows of integers, 1 for path; anything else converts to a wall.
MAZE_DIMENSION == 5

serviceStart == [x |-> 1, y |-> 1]

serviceEnd == [x |-> MAZE_DIMENSION - 2, y |-> MAZE_DIMENSION - 2]

ServiceCells == {[x |-> cx, y |-> cy] : cx \in 0..(MAZE_DIMENSION - 1), cy \in 0..(MAZE_DIMENSION - 1)}

\* const dirs = [{x:0, y:1}, {x:0, y:-1}, {x:1, y:0}, {x:-1, y:0}]
serviceDirs == <<[x |-> 0, y |-> 1], [x |-> 0, y |-> 0 - 1], [x |-> 1, y |-> 0], [x |-> 0 - 1, y |-> 0]>>

RawInBounds(g, nx, ny) == nx >= 0 /\ nx < Len(g[1]) /\ ny >= 0 /\ ny < Len(g)

\* raw grids are sequences of rows, rows sequences of integers: g[y + 1][x + 1]
RawAt(g, cx, cy) == g[cy + 1][cx + 1]

RawSet(g, cx, cy, v) == [g EXCEPT ![cy + 1][cx + 1] = v]

\* the for loop over dirs of checkSolvability, from direction i on
RECURSIVE checkExpand(_, _, _, _)
checkExpand(g, st, cur, i) ==
  IF i > Len(serviceDirs) THEN st
  ELSE LET nx == cur.x + serviceDirs[i].x
           ny == cur.y + serviceDirs[i].y
       IN IF RawInBounds(g, nx, ny) /\ RawAt(g, nx, ny) = 1
             /\ ~SetHas(st.visited, <<nx, ny>>)
            THEN checkExpand(g, [visited |-> SetAdd(st.visited, <<nx, ny>>),
                                 queue |-> Append(st.queue, [x |-> nx, y |-> ny])],
                             cur, i + 1)
            ELSE checkExpand(g, st, cur, i + 1)

\* the while loop of checkSolvability
RECURSIVE checkLoop(_, _, _)
checkLoop(g, st, e) ==
  IF Len(st.queue) = 0 THEN FALSE
  ELSE LET cur == Head(st.queue)
       IN IF cur.x = e.x /\ cur.y = e.y THEN TRUE
          ELSE checkLoop(g, checkExpand(g, [st EXCEPT !.queue = Shift(@)], cur, 1), e)

checkSolvability(g, s, e) ==
  IF RawAt(g, s.x, s.y) = 0 \/ RawAt(g, e.x, e.y) = 0 THEN FALSE
  ELSE checkLoop(g, [visited |-> <<toKey(s)>>, queue |-> <<s>>], e)

\* pq.sort((a, b) => a.cost - b.cost): stable
SortByCost(pq) ==
  LET keyOf == [i \in 1..Len(pq) |-> pq[i].cost]
  IN [k \in 1..Len(pq) |-> pq[SortedIndex(keyOf, k)]]

\* the for loop over dirs of repairMaze, from direction i on
RECURSIVE repairRelax(_, _, _, _, _)
repairRelax(newGrid, st, curr, currentDist, i) ==
  IF i > Len(serviceDirs) THEN st
  ELSE LET nx == curr.x + serviceDirs[i].x
           ny == curr.y + serviceDirs[i].y
       IN IF RawInBounds(newGrid, nx, ny)
            THEN LET isWall == RawAt(newGrid, nx, ny) = 0
                     weight == IF isWall THEN 100 ELSE 1
                     newDist == currentDist + weight
                 IN IF newDist < RawAt(st.dist, nx, ny)
                      THEN repairRelax(newGrid,
                             [dist |-> RawSet(st.dist, nx, ny, newDist),
                              parent |-> MapSet(st.parent, <<nx, ny>>, <<curr.x, curr.y>>),
                              pq |-> Append(st.pq, [x |-> nx, y |-> ny, cost |-> newDist])],
                             curr, currentDist, i + 1)
                      ELSE repairRelax(newGrid, st, curr, currentDist, i + 1)
            ELSE repairRelax(newGrid, st, curr, currentDist, i + 1)

\* the while loop of repairMaze: the parent map when it ends
RECURSIVE repairLoop(_, _, _)
repairLoop(newGrid, st, e) ==
  IF Len(st.pq) = 0 THEN st.parent
  ELSE LET sorted == SortByCost(st.pq)
           curr == Head(sorted)
           st1 == [st EXCEPT !.pq = Shift(sorted)]
           currentDist == RawAt(st.dist, curr.x, curr.y)
       IN IF curr.x = e.x /\ curr.y = e.y THEN st.parent
          ELSE IF curr.cost > currentDist THEN repairLoop(newGrid, st1, e)
          ELSE repairLoop(newGrid, repairRelax(newGrid, st1, curr, currentDist, 1), e)

\* a backtrack that opens the goal cell only
RECURSIVE carve(_, _, _)
carveGoalOnly(newGrid, parent, currKey) ==
  IF MapHas(parent, currKey) THEN RawSet(newGrid, currKey[1], currKey[2], 1) ELSE newGrid

\* while (parent.has(currKey)) { newGrid[cy][cx] = 1; currKey = parent.get(currKey) }
carve(newGrid, parent, currKey) ==
  IF MapHas(parent, currKey)
    THEN carve(RawSet(newGrid, currKey[1], currKey[2], 1), parent, MapGet(parent, currKey))
    ELSE newGrid

repairMaze(g, s, e) ==
  LET dist0 == [cy \in 1..Len(g) |-> [cx \in 1..Len(g[1]) |-> Infinity]]
      parent == repairLoop(g, [dist |-> RawSet(dist0, s.x, s.y, 0), parent |-> << >>,
                               pq |-> <<[x |-> s.x, y |-> s.y, cost |-> 0]>>], e)
  IN RawSet(carve(g, parent, toKey(e)), s.x, s.y, 1)

\* rawGrid[start.y][start.x] = 1; rawGrid[end.y][end.x] = 1
forceOpen(g) ==
  RawSet(RawSet(g, serviceStart.x, serviceStart.y, 1), serviceEnd.x, serviceEnd.y, 1)

\* the conversion to cells, with start and end marked
toCells(g) ==
  [cy \in 0..(MAZE_DIMENSION - 1) |-> [cx \in 0..(MAZE_DIMENSION - 1) |->
     IF cx = serviceEnd.x /\ cy = serviceEnd.y THEN END
     ELSE IF cx = serviceStart.x /\ cy = serviceStart.y THEN START
     ELSE IF RawAt(g, cx, cy) = 1 THEN EMPTY
     ELSE WALL]]

\* the answers taken: the border walls as asked for, but for at most MaxOpenBorder
\* cells; start and end both 0 or both 1; 0 or 1 in the other cells, but for at
\* most MaxOddCells of them, which hold another integer
MaxOpenBorder == 1

MaxOddCells == 1

BorderCells ==
  {c \in ServiceCells : c.x \in {0, MAZE_DIMENSION - 1} \/ c.y \in {0, MAZE_DIMENSION - 1}}

InnerCells == ServiceCells \ (BorderCells \cup {serviceStart, serviceEnd})

\* the answer parsed, its dimensions validated
ServiceInit ==
  \E paths \in SUBSET InnerCells :
  \E odd \in {o \in SUBSET InnerCells : Cardinality(o) <= MaxOddCells /\ o \cap paths = {}} :
  \E ends \in {0, 1} :
  \E open \in {b \in SUBSET BorderCells : Cardinality(b) <= MaxOpenBorder} :
  \E raw \in {[c \in ServiceCells |->
                 IF c \in paths \cup open THEN 1
                 ELSE IF c \in odd THEN 2
                 ELSE IF c \in {serviceStart, serviceEnd} THEN ends
                 ELSE 0]} :
    /\ service = [pc |-> "parsed",
                  rawGrid |-> [cy \in 1..MAZE_DIMENSION |-> [cx \in 1..MAZE_DIMENSION |->
                                 raw[[x |-> cx - 1, y |-> cy - 1]]]],
                  forced |-> << >>, isSolvable |-> FALSE]
    /\ grid = MakeGrid({}, [x |-> 0, y |-> 0], [x |-> 0, y |-> 0])
    /\ start = [x |-> 0, y |-> 0]
    /\ end = [x |-> 0, y |-> 0]
    /\ algorithm = "NONE"
    /\ gen = NotCreated
    /\ value = << >>
    /\ done = FALSE
    /\ lastValue = << >>
    /\ extraCalls = 0
    /\ tick = FALSE
    /\ peer = NoPeer
    /\ driver = NoDriver
    /\ carver = NoCarver

\* the rest of generateMazeFromPrompt: the MazeState it returns
ServiceReturn ==
  /\ service.pc = "parsed"
  /\ \E forced \in {forceOpen(service.rawGrid)} :
     \E isSolvable \in {checkSolvability(forced, serviceStart, serviceEnd)} :
     \E final \in {IF isSolvable THEN forced ELSE repairMaze(forced, serviceStart, serviceEnd)} :
       /\ service' = [pc |-> "returned", rawGrid |-> final, forced |-> forced,
                      isSolvable |-> isSolvable]
       /\ grid' = toCells(final)
  /\ start' = serviceStart
  /\ end' = serviceEnd
  /\ UNCHANGED <<algorithm, gen, value, done, lastValue, extraCalls, tick, peer, driver, carver>>

ServiceSpec == ServiceInit /\ [][ServiceReturn]_vars

\* ---------------------------------------------------------- maze carver
\* generateMaze(width, height): recursive backtracking over the cells at odd
\* coordinates. carver holds the call's locals; the grid, start and end of the
\* MazeState it returns go to grid, start and end.
MaxSide == 7

DIRECTIONS ==
  <<[x |-> 0, y |-> 0 - 2], [x |-> 0, y |-> 2], [x |-> 0 - 2, y |-> 0], [x |-> 2, y |-> 0]>>

\* createEmptyGrid(w, h): every cell a wall
createEmptyGrid(w, h) == [cy \in 0..(h - 1) |-> [cx \in 0..(w - 1) |-> WALL]]

carverStart == [x |-> 1, y |-> 1]

\* generateMaze called with a width and a height
CarverInit ==
  \E width \in 1..MaxSide : \E height \in 1..MaxSide :
    /\ carver = [pc |-> "called", width |-> width, height |-> height]
    /\ grid = MakeGrid({}, [x |-> 0, y |-> 0], [x |-> 0, y |-> 0])
    /\ start = [x |-> 0, y |-> 0]
    /\ end = [x |-> 0, y |-> 0]
    /\ algorithm = "NONE"
    /\ gen = NotCreated
    /\ value = << >>
    /\ done = FALSE
    /\ lastValue = << >>
    /\ extraCalls = 0
    /\ tick = FALSE
    /\ peer = NoPeer
    /\ driver = NoDriver
    /\ service = NoService

\* lines 38-49; grid[start.y][start.x].type = ... throws a TypeError when the grid
\* has no row 1 or no column 1
CarverEnter ==
  /\ carver.pc = "called"
  /\ LET w == IF carver.width % 2 = 0 THEN carver.width + 1 ELSE carver.width
         h == IF carver.height % 2 = 0 THEN carver.height + 1 ELSE carver.height
     IN carver' =
          IF h <= 1 \/ w <= 1
            THEN [pc |-> "threw", width |-> carver.width, height |-> carver.height,
                  w |-> w, h |-> h]
            ELSE [pc |-> "while", width |-> carver.width, height |-> carver.height,
                  w |-> w, h |-> h,
                  grid |-> [createEmptyGrid(w, h) EXCEPT ![carverStart.y][carverStart.x] = EMPTY],
                  stack |-> <<carverStart>>,
                  visited |-> <<toKey(carverStart)>>]
  /\ UNCHANGED <<grid, start, end, algorithm, gen, value, done, lastValue, extraCalls,
                 tick, peer, driver, service>>

\* the unvisited cells two steps from current, inside the border, lines 56-65
CarverNeighbors(c, current) ==
  {i \in 1..Len(DIRECTIONS) :
     LET nx == current.x + DIRECTIONS[i].x
         ny == current.y + DIRECTIONS[i].y
     IN nx > 0 /\ nx < c.w - 1 /\ ny > 0 /\ ny < c.h - 1 /\ ~SetHas(c.visited, <<nx, ny>>)}

\* a carving that opens the neighbour but leaves the wall between
CarvedCellOnly(g, current, dir) ==
  [g EXCEPT ![current.y + dir.y][current.x + dir.x] = EMPTY]

\* lines 72-76: the wall between and the neighbour are opened
Carved(g, current, dir) ==
  [[g EXCEPT ![current.y + dir.y \div 2][current.x + dir.x \div 2] = EMPTY]
      EXCEPT ![current.y + dir.y][current.x + dir.x] = EMPTY]

\* one iteration with neighbours: shuffle(neighbors)[0] may be any of them
CarverCarve ==
  /\ carver.pc = "while"
  /\ Len(carver.stack) > 0
  /\ \E i \in CarverNeighbors(carver, Last(carver.stack)) :
       LET current == Last(carver.stack)
           n == [x |-> current.x + DIRECTIONS[i].x, y |-> current.y + DIRECTIONS[i].y]
       IN carver' = [carver EXCEPT !.grid = Carved(@, current, DIRECTIONS[i]),
                                   !.visited = SetAdd(@, toKey(n)),
                                   !.stack = Append(@, n)]
  /\ UNCHANGED <<grid, start, end, algorithm, gen, value, done, lastValue, extraCalls,
                 tick, peer, driver, service>>

\* one iteration without neighbours: stack.pop()
CarverPop ==
  /\ carver.pc = "while"
  /\ Len(carver.stack) > 0
  /\ CarverNeighbors(carver, Last(carver.stack)) = {}
  /\ carver' = [carver EXCEPT !.stack = Front(@)]
  /\ UNCHANGED <<grid, start, end, algorithm, gen, value, done, lastValue, extraCalls,
                 tick, peer, driver, service>>

\* the loop has ended: start and end set, the MazeState returned, lines 85-96
CarverReturn ==
  /\ carver.pc = "while"
  /\ Len(carver.stack) = 0
  /\ carver' = [carver EXCEPT !.pc = "returned"]
  /\ grid' = [[carver.grid EXCEPT ![carverStart.y][carverStart.x] = START]
                 EXCEPT ![carver.h - 2][carver.w - 2] = END]
  /\ start' = carverStart
  /\ end' = [x |-> carver.w - 2, y |-> carver.h - 2]
  /\ UNCHANGED <<algorithm, gen, value, done, lastValue, extraCalls, tick, peer, driver,
                 service>>

CarverNext == CarverEnter \/ CarverCarve \/ CarverPop \/ CarverReturn

\* generateMaze is synchronous code: a step that can be taken is taken
CarverSpec == CarverInit /\ [][CarverNext]_vars /\ WF_vars(CarverNext)

\* The wall-column scenario: a 5x5 grid, open but for the cells (2,0), (2,1), (2,2),
\* (2,3), start (0,0), goal (4,4), run with each of the seven algorithms.
ScenarioWalls == {[x |-> 2, y |-> cy] : cy \in 0..3}

ScenarioStart == [x |-> 0, y |-> 0]

ScenarioEnd == [x |-> 4, y |-> 4]

ScenarioGrid ==
  [cy \in 0..4 |-> [cx \in 0..4 |->
     IF cx = ScenarioEnd.x /\ cy = ScenarioEnd.y THEN END
     ELSE IF cx = ScenarioStart.x /\ cy = ScenarioStart.y THEN START
     ELSE IF [x |-> cx, y |-> cy] \in ScenarioWalls THEN WALL
     ELSE EMPTY]]

ScenarioInit ==
  \E type \in AlgorithmType :
    /\ grid = ScenarioGrid
    /\ start = ScenarioStart
    /\ end = ScenarioEnd
    /\ algorithm = type
    /\ gen = createAlgorithmGenerator(type, ScenarioStart, ScenarioEnd)
    /\ value = << >>
    /\ done = FALSE
    /\ lastValue = << >>
    /\ extraCalls = 0
    /\ tick = FALSE
    /\ EngineOnly

ScenarioSpec == ScenarioInit /\ [][Next]_vars

\* Wide grids: WideCols by WideRows cells with at most MaxWalls walls, the goal in
\* the leftmost column and the start in the two rightmost, run with each of the
\* queue, stack and priority searches.  They are long enough for the weighted search
\* to come to a cell a second time at a lower cost before it has closed it.
WideCells == {[x |-> cx, y |-> cy] : cx \in 0..(WideCols - 1), cy \in 0..(WideRows - 1)}

WideTypes == AlgorithmType \ {"IDA_STAR"}

MakeWideGrid(walls, s, e) ==
  [cy \in 0..(WideRows - 1) |-> [cx \in 0..(WideCols - 1) |->
     IF cx = e.x /\ cy = e.y THEN END
     ELSE IF cx = s.x /\ cy = s.y THEN START
     ELSE IF [x |-> cx, y |-> cy] \in walls THEN WALL
     ELSE EMPTY]]

WideInit ==
  \E walls \in {w \in SUBSET WideCells : Cardinality(w) <= MaxWalls} :
  \E s \in {c \in WideCells \ walls : c.x >= WideCols - 2} :
  \E e \in {c \in WideCells \ walls : c.x = 0} :
  \E type \in WideTypes :
    /\ grid = MakeWideGrid(walls, s, e)
    /\ start = s
    /\ end = e
    /\ algorithm = type
    /\ gen = createAlgorithmGenerator(type, s, e)
    /\ value = << >>
    /\ done = FALSE
    /\ lastValue = << >>
    /\ extraCalls = 0
    /\ tick = FALSE
    /\ EngineOnly

WideNext == BfsNext \/ DfsNext \/ WeightedNext \/ BidirectionalNext

WideSpec == WideInit /\ [][WideNext]_vars

\* reconstructPath run one loop iteration at a time, on parent maps of any shape
\* over three keys: a key may be absent, a root (parent ""), or have any of the
\* keys as parent, itself included, so chains with cycles are among them.
ChainKeys == << <<0, 0>>, <<1, 0>>, <<2, 0>> >>

ParentChoices == [DOMAIN ChainKeys -> {ChainKeys[i] : i \in DOMAIN ChainKeys}
                                      \cup {EmptyString, Undefined}]

ParentMapOf(choice) ==
  LET Present(entry) == entry[2] # Undefined
  IN SelectSeq([i \in DOMAIN ChainKeys |-> <<ChainKeys[i], choice[i]>>], Present)

ReconstructInit ==
  \E choice \in ParentChoices : \E i \in DOMAIN ChainKeys :
    /\ gen = [pc |-> "while", parentMap |-> ParentMapOf(choice),
              curr |-> ChainKeys[i], path |-> << >>]
    /\ algorithm = "NONE"
    /\ grid = MakeGrid({}, [x |-> 0, y |-> 0], [x |-> 0, y |-> 0])
    /\ start = [x |-> 0, y |-> 0]
    /\ end = [x |-> 0, y |-> 0]
    /\ value = << >>
    /\ done = FALSE
    /\ lastValue = << >>
    /\ extraCalls = 0
    /\ tick = FALSE
    /\ EngineOnly

\* one iteration of while (curr), lines 43-46; the path is capped at MaxPathLen
ReconstructWalk ==
  /\ gen.pc = "while"
  /\ Truthy(gen.curr)
  /\ Len(gen.path) < MaxPathLen
  /\ gen' = [gen EXCEPT !.path = <<fromKey(gen.curr)>> \o @,
                         !.curr = MapGet(gen.parentMap, gen.curr)]
  /\ UNCHANGED <<grid, start, end, algorithm, value, done, lastValue, extraCalls, tick,
               peer, driver, service, carver>>

\* the loop ends on a falsy curr; return path, line 47
ReconstructReturn ==
  /\ gen.pc = "while"
  /\ ~Truthy(gen.curr)
  /\ gen' = [gen EXCEPT !.pc = "returned"]
  /\ UNCHANGED <<grid, start, end, algorithm, value, done, lastValue, extraCalls, tick,
               peer, driver, service, carver>>

ReconstructNext == ReconstructWalk \/ ReconstructReturn

ReconstructSpec == ReconstructInit /\ [][ReconstructNext]_vars

\* ------------------------------------------------------ reference notions
ValidCoordinate(c) == InBounds(c) /\ grid[c.y][c.x] # WALL

OpenCell(c) == grid[c.y][c.x] # WALL

Adjacent(a, b) ==
  \/ (a.x = b.x /\ (a.y = b.y + 1 \/ b.y = a.y + 1))
  \/ (a.y = b.y /\ (a.x = b.x + 1 \/ b.x = a.x + 1))

\* the coordinates of the grid of the run, whatever its size
GridCells == {[x |-> cx, y |-> cy] : cx \in DOMAIN grid[0], cy \in DOMAIN grid}

OpenCells == {c \in GridCells : OpenCell(c)}

\* hop distance from the cells of layer (all at distance d) to target, -1 if none
RECURSIVE HopDistance(_, _, _, _)
HopDistance(layer, seen, d, target) ==
  IF target \in layer THEN d
  ELSE IF layer = {} THEN -1
  ELSE LET nextLayer == {c \in OpenCells \ seen : \E b \in layer : Adjacent(b, c)}
       IN HopDistance(nextLayer, seen \cup nextLayer, d + 1, target)

ShortestDistance == HopDistance({start}, {start}, 0, end)

Solvable == ShortestDistance >= 0

NoRepeat(p) == \A i, j \in 1..Len(p) : i # j => p[i] # p[j]

Contiguous(p) ==
  \A i \in 1..(Len(p) - 1) : Adjacent(p[i], p[i + 1]) /\ OpenCell(p[i]) /\ OpenCell(p[i + 1])

\* a simple start-to-goal path through orthogonally adjacent non-wall cells
GoodPath(p) ==
  /\ Len(p) >= 1
  /\ p[1] = start
  /\ p[Len(p)] = end
  /\ NoRepeat(p)
  /\ Contiguous(p)

Count(p, c) == Cardinality({i \in 1..Len(p) : p[i] = c})

\* the instance is suspended at the yield of its final (goal or meeting) frame
AtFinal == gen.pc \in {"final", "finalStart", "finalEnd"}

\* the last frame yielded was a final frame
FoundFrame == lastValue # << >> /\ lastValue[1].frontier = << >> /\ lastValue[1].current = << >>

\* the last frame of a complete BFS run on the same grid, start and goal
RECURSIVE bfsLastFrame(_, _)
bfsLastFrame(g, last) ==
  LET r == bfsGenerator(g, grid, end)
  IN IF r.done THEN last ELSE bfsLastFrame(r.gen, r.value)

BfsFinalPath == bfsLastFrame(bfsInit(start), << >>)[1].path

\* the number of frames with a non-empty frontier in a complete BFS run from g on,
\* added to n
RECURSIVE bfsFrontierFrames(_, _)
bfsFrontierFrames(g, n) ==
  LET r == bfsGenerator(g, grid, end)
  IN IF r.done THEN n
     ELSE bfsFrontierFrames(r.gen, IF r.value[1].frontier # << >> THEN n + 1 ELSE n)

\* the coordinates of the grid and of the ring of cells around it
Probes == {[x |-> cx, y |-> cy] : cx \in (0 - 1)..Cols, cy \in (0 - 1)..Rows}

\* up, down, left, right of c, those kept that lie in the grid on a non-wall cell
AdjacentOpen(c) ==
  LET Open(n) == ValidCoordinate(n)
  IN SelectSeq(<< [x |-> c.x, y |-> c.y - 1], [x |-> c.x, y |-> c.y + 1],
                  [x |-> c.x - 1, y |-> c.y], [x |-> c.x + 1, y |-> c.y] >>, Open)

WeightedTypes == {"DIJKSTRA", "ASTAR", "GREEDY"}

\* BFS or a weighted search is suspended at the yield of a progress frame
AtProgressFrame == algorithm \in {"BFS"} \cup WeightedTypes /\ gen.pc = "yielded"

\* n has been discovered in generator state g: BFS has it in visitedSet, the
\* weighted search has a cost for it in distMap
Discovered(g, n) ==
  IF algorithm = "BFS" THEN SetHas(g.visitedSet, toKey(n)) ELSE MapHas(g.distMap, toKey(n))

\* hop distance from start to c over the open cells
Dist(c) == HopDistance({start}, {start}, 0, c)

\* the coordinates a BFS step has put into the queue: those in the queue after the
\* step, or dequeued by it, that were not in the queue before
Enqueued(g, h) ==
  {c \in Cells : /\ ~SeqHas(g.queue, c)
                 /\ SeqHas(h.queue, c) \/ (h.current = <<c>> /\ h.current # g.current)}

\* the coordinates a DFS step has pushed: those on the stack after the step, or
\* popped by it, that were not on the stack before
Pushed(g, h) ==
  {c \in Cells : /\ ~SeqHas(g.stack, c)
                 /\ SeqHas(h.stack, c) \/ (h.current = <<c>> /\ h.current # g.current)}

\* the parent maps of an instance: parentMap, or for the bidirectional search the
\* two visited maps, which hold each key's parent
ParentMaps(g) ==
  IF algorithm = "BIDIRECTIONAL" THEN <<g.startVisited, g.endVisited>> ELSE <<g.parentMap>>

\* a step leaves every entry of the parent map m as it is in n, and n may have more
Kept(m, n) == Len(n) >= Len(m) /\ \A i \in DOMAIN m : n[i] = m[i]

\* the origins of the parent maps: start, and goal for the end side
Origins == IF algorithm = "BIDIRECTIONAL" THEN <<start, end>> ELSE <<start>>

\* the keys of the parent map m from which the parents lead to a key of rooted, each
\* step going from a child to an orthogonally adjacent parent: rooted itself, then
\* the keys whose parent is in it, and so on until no key is added
RECURSIVE RootedKeys(_, _)
RootedKeys(m, rooted) ==
  LET more == {m[i][1] : i \in {j \in DOMAIN m :
                                   /\ m[j][1] \notin rooted
                                   /\ m[j][2] \in rooted
                                   /\ Adjacent(fromKey(m[j][1]), fromKey(m[j][2]))}}
  IN IF more = {} THEN rooted ELSE RootedKeys(m, rooted \cup more)

\* the instance is suspended at a yield
AtYield == gen.pc \in {"yielded", "final", "finalStart", "finalEnd"}

\* the pq holds an entry for a coordinate whose best-known cost has since been lowered
HasStaleEntry(g) ==
  \E i \in DOMAIN g.pq : g.pq[i].g > MapGet(g.distMap, toKey(g.pq[i].coord))

\* the weighted search takes a step from a state in which it can still extract
WeightedRunning == algorithm \in WeightedTypes /\ gen.pc \in {"start", "yielded"}

\* the entries of the sorted array a that a step has extracted, the array being b
\* after the step: the first Len(a) - Len(b) of them
Extracted(a, b) == SubSeq(a, 1, Len(a) - Len(b))

\* the position of entry x in the array q
Pos(q, x) == CHOOSE i \in DOMAIN q : q[i] = x

\* the pq as the relaxation of the node yielded before leaves it, ahead of the sort
RelaxedPq ==
  IF gen.pc = "yielded"
    THEN weightedRelax(gen, getNeighbors(grid, gen.current[1]), 1,
                       toKey(gen.current[1]), end).pq
    ELSE gen.pq

\* the Manhattan distance of a and b
Manhattan(a, b) ==
  (IF a.x >= b.x THEN a.x - b.x ELSE b.x - a.x) + (IF a.y >= b.y THEN a.y - b.y ELSE b.y - a.y)

\* the best-known cost of key k in generator state g, Infinity when there is none
BestKnown(g, k) == IF MapHas(g.distMap, k) THEN MapGet(g.distMap, k) ELSE Infinity

\* the outcome of a depth-first search from node at cost g, bounded by b, that never
\* steps onto a cell of onPath: the costs f = g + Manhattan of the nodes it would
\* prune, and -1 if a branch comes to the goal within the bound
RECURSIVE BoundedOutcome(_, _, _, _)
BoundedOutcome(node, g, onPath, b) ==
  LET f == g + Manhattan(node, end)
  IN IF f > b THEN {f}
     ELSE IF node = end THEN {0 - 1}
     ELSE UNION {BoundedOutcome(n, g + 1, onPath \cup {n}, b) :
                   n \in {c \in OpenCells \ onPath : Adjacent(node, c)}}

\* the costs pruned by a whole inner search from start under bound b
PrunedCosts(b) == BoundedOutcome(start, 0, {start}, b) \ {0 - 1}

\* an inner search from start under bound b comes to the goal
FoundWithin(b) == (0 - 1) \in BoundedOutcome(start, 0, {start}, b)

Minimum(S) == CHOOSE m \in S : \A n \in S : m <= n

\* the neighbours of the last cell of stack p in the order the search tries them
Tried(p) == SortByHeuristic(getNeighbors(grid, Last(p)), end)

\* the stack after the branch p is given up, if a neighbour is skipped exactly when
\* it is on the stack: the parent goes on to the next neighbour that is not on its
\* own stack, or gives up in turn; the empty sequence when start itself gives up
RECURSIVE StackAfterBacktrack(_)
StackAfterBacktrack(p) ==
  IF Len(p) = 1 THEN << >>
  ELSE LET q == Front(p)
           at == CHOOSE i \in 1..Len(Tried(q)) : Tried(q)[i] = Last(p)
           later == {i \in (at + 1)..Len(Tried(q)) : \A j \in 1..Len(q) : q[j] # Tried(q)[i]}
       IN IF later = {} THEN StackAfterBacktrack(q)
          ELSE Append(q, Tried(q)[Minimum(later)])

\* the stack at the next yield of a search under bound b resumed with stack p:
\* p itself when its last cell is the goal within the bound
StackAfterDescend(p, b) ==
  LET node == Last(p)
      free == {i \in 1..Len(Tried(p)) : \A j \in 1..Len(p) : p[j] # Tried(p)[i]}
  IN IF (Len(p) - 1) + Manhattan(node, end) > b THEN StackAfterBacktrack(p)
     ELSE IF node = end THEN p
     ELSE IF free = {} THEN StackAfterBacktrack(p)
     ELSE Append(p, Tried(p)[Minimum(free)])

\* a stack that is a simple path from start through adjacent open cells
SimpleFromStart(p) ==
  /\ Len(p) >= 1 /\ p[1] = start
  /\ NoRepeat(p) /\ Contiguous(p) /\ \A i \in 1..Len(p) : OpenCell(p[i])

\* what a step of the bounded search does to the stack when neighbours are skipped
\* exactly for being on the stack, whatever visitedKeys holds
SkipsOnlyStack ==
  (gen.pc \in {"start", "yielded"}) =>
    \A nxt \in {StackAfterDescend(gen.pathStack, gen.bound)} :
      IF nxt = << >>
        THEN \/ done'
             \/ /\ gen'.bound > gen.bound
                /\ gen'.pc = "yielded"
                /\ gen'.pathStack = StackAfterDescend(<<start>>, gen'.bound)
      ELSE IF nxt = gen.pathStack
        THEN gen'.pc = "final" /\ gen'.pathStack = nxt
      ELSE gen'.pc = "yielded" /\ gen'.pathStack = nxt /\ gen'.bound = gen.bound

\* what the n-th next() call returns on an instance of type advanced alone from
\* its construction on the grid of the run (n = 0: the instance as constructed)
RECURSIVE Alone(_, _)
Alone(type, n) ==
  IF n = 0
    THEN [gen |-> createAlgorithmGenerator(type, start, end), value |-> << >>, done |-> FALSE]
    ELSE Advance(type, Alone(type, n - 1).gen, grid, start, end)

\* an even side rounded up to the next odd
NextOdd(n) == IF n % 2 = 0 THEN n + 1 ELSE n

\* the maze returned: the sides asked for, walls all around, start at (1,1), end at
\* (w-2, h-2), both not walls, and end reachable from start through open cells
GoodMaze ==
  /\ Cardinality(DOMAIN grid) = NextOdd(carver.height)
  /\ \A cy \in DOMAIN grid : Cardinality(DOMAIN grid[cy]) = NextOdd(carver.width)
  /\ \A c \in GridCells :
       (c.x \in {0, NextOdd(carver.width) - 1} \/ c.y \in {0, NextOdd(carver.height) - 1})
         => grid[c.y][c.x] = WALL
  /\ start = [x |-> 1, y |-> 1]
  /\ end = [x |-> NextOdd(carver.width) - 2, y |-> NextOdd(carver.height) - 2]
  /\ grid[start.y][start.x] # WALL
  /\ grid[end.y][end.x] # WALL
  /\ Solvable

\* ------------------------------------------------------------------ claims

\* C1: on a grid whose goal is reachable, the path of the last frame of a finished
\* BFS run has as many edges as the shortest hop distance from start to goal.
C1_BfsShortest ==
  (algorithm = "BFS" /\ done /\ Solvable) =>
    (lastValue # << >> /\ Len(lastValue[1].path) - 1 = ShortestDistance)

C1_Witness ==
  algorithm = "BFS" /\ done /\ Solvable /\ ShortestDistance >= 4
  /\ Len(lastValue[1].path) = 5

\* C2: on a solvable grid, Dijkstra and A* each end with a final path whose edge
\* count is the shortest hop distance.
C2_DijkstraAStarShortest ==
  (algorithm \in {"DIJKSTRA", "ASTAR"} /\ done /\ Solvable) =>
    (lastValue # << >> /\ Len(lastValue[1].path) - 1 = ShortestDistance)

C2_Witness ==
  algorithm = "ASTAR" /\ done /\ Solvable /\ ShortestDistance >= 4
  /\ Len(lastValue[1].path) = 5

\* C3: when the bidirectional search detects a meeting, on either side's turn, the
\* final frame's path is a simple contiguous path from start to goal that holds the
\* meeting coordinate exactly once.
C3_BidirectionalPath ==
  (algorithm = "BIDIRECTIONAL" /\ gen.pc \in {"finalStart", "finalEnd"}) =>
    LET meeting == IF gen.pc = "finalStart" THEN gen.currStart[1] ELSE gen.currEnd[1]
    IN GoodPath(value[1].path) /\ Count(value[1].path, meeting) = 1

\* C4: for BFS, DFS, Dijkstra, A*, Greedy and IDA*, the path of the final frame of a
\* run that found the goal is a simple contiguous path of non-wall cells from start
\* to goal.
C4_FinalPathWellFormed ==
  (algorithm # "BIDIRECTIONAL" /\ gen.pc = "final") => GoodPath(value[1].path)

C4_Witness ==
  algorithm = "IDA_STAR" /\ gen.pc = "final" /\ Len(value[1].path) >= 5

\* C5: on a solvable grid the final path of bidirectional BFS has as many
\* coordinates as the final path of BFS on the same grid, start and goal.
C5_BidirectionalAsBfs ==
  (algorithm = "BIDIRECTIONAL" /\ done /\ Solvable) =>
    (lastValue # << >> /\ Len(lastValue[1].path) = Len(BfsFinalPath))

C5_Witness ==
  algorithm = "BIDIRECTIONAL" /\ done /\ Solvable /\ Len(lastValue[1].path) >= 5
  /\ gen.pc = "done" /\ gen.currStart # << >> /\ gen.currEnd # << >>

C6_WitnessUnsolvable ==
  algorithm = "IDA_STAR" /\ done /\ ~Solvable /\ lastValue # << >>

\* C7: every run of every algorithm reaches done after finitely many advance calls.
C7_Terminates == (gen # NotCreated) ~> done

C7_Witness == done /\ ~Solvable /\ algorithm = "IDA_STAR" /\ gen.bound > heuristic(start, end)

\* C8: on a grid whose goal is unreachable, the last frame of a finished run has an
\* empty path, for each of the seven algorithms.
C8_UnreachableEmptyPath ==
  (done /\ ~Solvable /\ lastValue # << >>) => lastValue[1].path = << >>

\* C9: the call that returns done = true carries a frame, whose path is
\* populated when the goal was found and empty when the search was exhausted.
C9_DoneCarriesFinalFrame ==
  done => (value # << >> /\ (Solvable <=> value[1].path # << >>))

C9_Witness == done /\ extraCalls = 0 /\ FoundFrame /\ Len(lastValue[1].path) >= 3

C11_InvalidCoordinateRejected ==
  ~(ValidCoordinate(start) /\ ValidCoordinate(end)) => (value = << >> /\ lastValue = << >>)

C11_Witness ==
  /\ ValidCoordinate(end) /\ InBounds(start) /\ ~ValidCoordinate(start)
  /\ algorithm = "BFS" /\ gen.pc = "final" /\ Len(value[1].path) >= 3
\* C12: within one run the number of coordinates in the visited field of a frame is
\* never smaller than in the frame before it, for every algorithm.
C12_VisitedNeverShrinks ==
  [][ (lastValue # << >> /\ value' # << >>) =>
        Len(value'[1].visited) >= Len(lastValue[1].visited) ]_vars

C12_Witness ==
  /\ algorithm = "IDA_STAR" /\ gen.bound > heuristic(start, end) /\ ~done
  /\ lastValue # << >> /\ Len(lastValue[1].visited) >= 5
  /\ Len(lastValue[1].path) < Len(lastValue[1].visited)
C14_StatusTellsFound ==
  done => /\ (Status = "COMPLETED") <=> FoundFrame
          /\ ~Solvable => Status = "NO_PATH"

C14_Witness ==
  done /\ ~Solvable /\ algorithm = "IDA_STAR" /\ Status = "COMPLETED"
  /\ Len(lastValue[1].path) >= 3
\* C15: on the wall-column scenario BFS ends with a final path of 8 edges that holds
\* (2,4), and its run has at least 5 frames with a non-empty frontier.
C15_WallColumnScenario ==
  (algorithm = "BFS" /\ done) =>
    /\ FoundFrame
    /\ Len(lastValue[1].path) - 1 = 8
    /\ SeqHas(lastValue[1].path, [x |-> 2, y |-> 4])
    /\ bfsFrontierFrames(bfsInit(start), 0) >= 5

C15_Witness ==
  /\ grid = ScenarioGrid /\ algorithm = "BFS" /\ done /\ extraCalls = 0
  /\ lastValue # << >> /\ Last(lastValue[1].path) = ScenarioEnd
\* C16: for every grid and every coordinate, of the grid or next to it, the neighbour
\* resolver returns the orthogonally adjacent in-bounds non-wall cells, each once, in
\* the order up, down, left, right.  (A run never changes its grid: the resolver is
\* compared on the grid of each run at the run's first state.)
C16_NeighborsUpDownLeftRight ==
  (gen.pc = "start") => \A c \in Probes : getNeighbors(grid, c) = AdjacentOpen(c)

C16_Witness ==
  /\ algorithm = "BFS" /\ gen.pc = "yielded" /\ Len(getNeighbors(grid, start)) = 4
  /\ gen.current = <<Head(getNeighbors(grid, start))>>
  /\ value[1].frontier = Tail(getNeighbors(grid, start))
\* C17: path reconstruction on a parent map whose chain from the terminal key holds a
\* cycle fails with BrokenChain: when the walk comes to a key whose coordinate is
\* already on the path, it stops in failure: the loop is never at such a key.
C17_CycleFailsBrokenChain ==
  ~(gen.pc = "while" /\ Truthy(gen.curr) /\ SeqHas(gen.path, fromKey(gen.curr)))

C17_Witness ==
  /\ gen.pc = "while" /\ Len(gen.path) = MaxPathLen /\ Truthy(gen.curr)
  /\ Len(gen.parentMap) = Len(ChainKeys) /\ ~NoRepeat(gen.path)
\* C18 (as stated): in BFS and the weighted search the progress frame of an extracted
\* node comes after its neighbours were processed, so every neighbour of the frame's
\* current node is already in the frame's visited or frontier.
C18_FrameAfterNeighbours ==
  AtProgressFrame =>
    \A i \in DOMAIN getNeighbors(grid, gen.current[1]) :
      LET n == getNeighbors(grid, gen.current[1])[i]
      IN SeqHas(value[1].visited, n) \/ SeqHas(value[1].frontier, n)

\* C18 (amended): in BFS and the weighted search the progress frame of an extracted
\* node comes before its neighbours are processed.  The first frame shows the start
\* alone as visited and an empty frontier; a neighbour not yet discovered when the
\* frame is yielded is in neither its visited nor its frontier, is discovered by the
\* next advance call, and is in the visited or frontier of the next progress frame.
C18_FrameBeforeNeighbours ==
  [][ AtProgressFrame =>
        /\ (gen.current[1] = start) =>
              (value[1].visited = <<start>> /\ value[1].frontier = << >>)
        /\ \A i \in DOMAIN getNeighbors(grid, gen.current[1]) :
             LET n == getNeighbors(grid, gen.current[1])[i]
             IN ~Discovered(gen, n) =>
                  /\ ~SeqHas(value[1].visited, n) /\ ~SeqHas(value[1].frontier, n)
                  /\ Discovered(gen', n)
                  /\ (gen'.pc = "yielded") =>
                       (SeqHas(value'[1].visited, n) \/ SeqHas(value'[1].frontier, n)) ]_vars

C18_Witness ==
  /\ algorithm = "DIJKSTRA" /\ gen.pc = "yielded" /\ gen.current[1] # start
  /\ Len(value[1].frontier) >= 2
  /\ \E i \in DOMAIN getNeighbors(grid, gen.current[1]) :
       ~Discovered(gen, getNeighbors(grid, gen.current[1])[i])
\* C19: in BFS nodes are dequeued in non-decreasing hop distance from start; a
\* coordinate is enqueued at most once (only when not yet in visitedSet, and it is
\* in visitedSet from then on); its parent entry is written when it is enqueued, is
\* the node being expanded, and is never changed afterwards.
C19_BfsOrderAndParents ==
  [][ algorithm = "BFS" =>
        /\ (gen.current # << >> /\ gen'.current # << >>) =>
              Dist(gen'.current[1]) >= Dist(gen.current[1])
        /\ NoRepeat(gen'.queue)
        /\ \A i \in DOMAIN gen'.queue : SetHas(gen'.visitedSet, toKey(gen'.queue[i]))
        /\ \A c \in Enqueued(gen, gen') :
             /\ ~SetHas(gen.visitedSet, toKey(c))
             /\ ~MapHas(gen.parentMap, toKey(c))
             /\ MapGet(gen'.parentMap, toKey(c)) = toKey(gen.current[1])
        /\ Len(gen'.parentMap) = Len(gen.parentMap) + Cardinality(Enqueued(gen, gen'))
        /\ \A i \in DOMAIN gen.parentMap : gen'.parentMap[i] = gen.parentMap[i] ]_vars

C19_Witness ==
  /\ algorithm = "BFS" /\ done /\ Solvable /\ ShortestDistance >= 3
  /\ Len(gen.parentMap) >= 6 /\ Len(gen.visitedSet) = Len(gen.parentMap) + 1
\* C20 (as stated): the bidirectional search finishes with no path only once both
\* frontiers are empty; while exactly one is empty it goes on expanding the other.
C20_FinishesWhenBothEmpty ==
  (algorithm = "BIDIRECTIONAL" /\ done /\ ~FoundFrame) =>
    (Len(gen.startQueue) = 0 /\ Len(gen.endQueue) = 0)

\* C20 (amended): a step of the bidirectional search that finds either frontier empty
\* finishes the run with no path, expanding nothing; a step that finds both non-empty
\* dequeues a node from the start side and, unless that node is a meeting, a node
\* from the end side too.  No step expands one side alone while the other is empty.
C20_FinishesWhenEitherEmpty ==
  [][ (algorithm = "BIDIRECTIONAL" /\ gen.pc \in {"start", "yielded"}) =>
        IF Len(gen.startQueue) = 0 \/ Len(gen.endQueue) = 0
          THEN /\ done'
               /\ gen' = [gen EXCEPT !.pc = "done"]
          ELSE /\ ~done'
               /\ gen'.currStart = <<Head(gen.startQueue)>>
               /\ gen'.pc = "finalStart" \/ gen'.currEnd = <<Head(gen.endQueue)>> ]_vars

C20_Witness ==
  /\ algorithm = "BIDIRECTIONAL" /\ done /\ ~FoundFrame /\ lastValue # << >>
  /\ Len(gen.startQueue) = 0 /\ Len(gen.endQueue) >= 2
\* C21: in every frame of the weighted search no coordinate of the frame's frontier
\* is in the frame's visited (closed) list.
C21_FrontierNotClosed ==
  (algorithm \in WeightedTypes /\ value # << >>) =>
    \A i \in DOMAIN value[1].frontier : ~SeqHas(value[1].visited, value[1].frontier[i])

C21_Witness ==
  /\ algorithm \in WeightedTypes /\ gen.pc = "yielded"
  /\ \E i \in DOMAIN value[1].frontier : SeqHas(value[1].visited, value[1].frontier[i])
\* C28: in DFS a coordinate is pushed only when it is not yet in visitedSet, and it
\* is in visitedSet with a parent entry from that step on; so no coordinate is pushed
\* twice in a run and the stack never holds a coordinate twice.
C28_DfsPushedOnce ==
  [][ algorithm = "DFS" =>
        /\ NoRepeat(gen'.stack)
        /\ \A c \in Pushed(gen, gen') :
             /\ ~SetHas(gen.visitedSet, toKey(c))
             /\ SetHas(gen'.visitedSet, toKey(c))
             /\ MapGet(gen'.parentMap, toKey(c)) = toKey(gen.current[1])
        /\ \A i \in DOMAIN gen.visitedSet : gen'.visitedSet[i] = gen.visitedSet[i]
        /\ Len(gen'.visitedSet) = Len(gen.visitedSet) + Cardinality(Pushed(gen, gen')) ]_vars

C28_Witness ==
  /\ algorithm = "DFS" /\ gen.pc = "yielded" /\ Len(gen.stack) >= 3
  /\ Len(gen.visitedSet) >= 6 /\ Len(gen.parentMap) = Len(gen.visitedSet) - 1
\* C29: in every DFS progress frame, path is the parent chain from start to the
\* frame's current node: it begins with start, ends with current, each coordinate is
\* the recorded parent of the next, consecutive coordinates are orthogonally adjacent
\* non-wall cells, and no coordinate is repeated.
C29_DfsBranchPath ==
  (algorithm = "DFS" /\ gen.pc = "yielded") =>
    LET p == value[1].path
    IN /\ Len(p) >= 1
       /\ p[1] = start
       /\ Last(p) = gen.current[1]
       /\ value[1].current = gen.current
       /\ \A i \in 2..Len(p) : MapGet(gen.parentMap, toKey(p[i])) = toKey(p[i - 1])
       /\ NoRepeat(p)
       /\ Contiguous(p)

C29_Witness ==
  /\ algorithm = "DFS" /\ gen.pc = "yielded" /\ Len(value[1].path) >= 4
  /\ Len(value[1].visited) > Len(value[1].path) + Len(value[1].frontier)
\* C22 (as stated): in BFS, DFS, the weighted search and each side of the
\* bidirectional search, no step changes a parent entry once it is recorded.
C22_ParentWrittenOnce ==
  [][ \A m \in DOMAIN ParentMaps(gen) : Kept(ParentMaps(gen)[m], ParentMaps(gen')[m]) ]_vars

\* C22 (amended): in BFS, DFS and each side of the bidirectional search no step changes
\* a recorded parent entry.  In the weighted search a step changes the parent of a key
\* only when the key is not closed and the step lowers its best-known cost: the new
\* parent is the node being expanded and the new cost is that node's cost plus one;
\* the parent of a closed key is never changed.
C22_ParentRewrittenOnlyCheaper ==
  [][ IF algorithm \in WeightedTypes
        THEN /\ Len(gen'.parentMap) >= Len(gen.parentMap)
             /\ \A i \in DOMAIN gen.parentMap :
                  LET k == gen.parentMap[i][1]
                  IN /\ gen'.parentMap[i][1] = k
                     /\ gen'.parentMap[i] # gen.parentMap[i] =>
                          /\ ~SetHas(gen.visitedSet, k)
                          /\ MapGet(gen'.distMap, k) < MapGet(gen.distMap, k)
                          /\ MapGet(gen'.distMap, k) = gen.currentG + 1
                          /\ gen'.parentMap[i][2] = toKey(gen.current[1])
        ELSE \A m \in DOMAIN ParentMaps(gen) :
               Kept(ParentMaps(gen)[m], ParentMaps(gen')[m]) ]_vars

C22_Witness ==
  /\ algorithm = "ASTAR" /\ gen.pc = "yielded" /\ HasStaleEntry(gen)
  /\ Len(gen.parentMap) >= 6 /\ Len(gen.pq) > Len(gen.distMap) - Len(gen.visitedSet)
\* C23: at every yield of BFS, DFS, the weighted search and the bidirectional search,
\* each parent map is a forest rooted at its origin (start, or the goal for the end
\* side): from every recorded key the parents lead to the origin in at most as many
\* steps as the map has entries, so no key is met twice, and every child is
\* orthogonally adjacent to its parent.
C23_ParentForest ==
  (algorithm \in WideTypes /\ AtYield) =>
    \A m \in DOMAIN ParentMaps(gen) :
      LET rooted == RootedKeys(ParentMaps(gen)[m], {toKey(Origins[m])})
      IN \A i \in DOMAIN ParentMaps(gen)[m] : ParentMaps(gen)[m][i][1] \in rooted

C23_Witness ==
  /\ algorithm = "GREEDY" /\ AtYield /\ Len(gen.parentMap) >= 5
  /\ \E i \in DOMAIN gen.pq : SetHas(gen.visitedSet, toKey(gen.pq[i].coord))
\* C24: in the weighted search a step that yields a frame closes exactly one
\* coordinate, one that was not closed before, and reports it as the frame's current
\* (or, in the final frame, as the end of its path); every entry the step extracts
\* before that one has a closed coordinate and is dropped: no frame is made for it,
\* it is not closed again and none of its neighbours is relaxed (the cost and parent
\* maps are as the relaxation of the node yielded before left them).  A step that
\* runs out of entries has dropped them all, and closes and yields nothing.
C24_ClosedOnceStaleDropped ==
  [][ WeightedRunning =>
        LET relaxed == IF gen.pc = "yielded"
                         THEN weightedRelax(gen, getNeighbors(grid, gen.current[1]), 1,
                                            toKey(gen.current[1]), end)
                         ELSE gen
            sorted == SortByPriority(relaxed.pq)
            taken == Extracted(sorted, gen'.pq)
        IN /\ gen'.pq = SubSeq(sorted, Len(taken) + 1, Len(sorted))
           /\ gen'.distMap = relaxed.distMap
           /\ gen'.parentMap = relaxed.parentMap
           /\ NoRepeat(gen'.visitedSet)
           /\ IF done'
                THEN /\ \A i \in DOMAIN taken : SetHas(gen.visitedSet, toKey(taken[i].coord))
                     /\ gen'.visitedSet = gen.visitedSet
                     /\ value' = << >>
                     /\ gen'.pq = << >>
                ELSE /\ \A i \in 1..(Len(taken) - 1) :
                          SetHas(gen.visitedSet, toKey(taken[i].coord))
                     /\ ~SetHas(gen.visitedSet, toKey(Last(taken).coord))
                     /\ gen'.visitedSet = Append(gen.visitedSet, toKey(Last(taken).coord))
                     /\ gen'.current = <<Last(taken).coord>>
                     /\ IF gen'.pc = "final"
                          THEN Last(value'[1].path) = Last(taken).coord
                          ELSE value'[1].current = gen'.current ]_vars

C24_Witness ==
  /\ algorithm = "ASTAR" /\ done /\ ~FoundFrame /\ lastValue # << >>
  /\ lastValue[1].frontier # << >> /\ gen.pq = << >>
  /\ \A i \in DOMAIN lastValue[1].frontier :
       SetHas(gen.visitedSet, toKey(lastValue[1].frontier[i]))
\* C25: in the weighted search new entries are put behind the entries already in the
\* collection, and these keep their order; every entry a step extracts comes, by
\* priority and among equal priorities by insertion, before every entry the step
\* leaves in the collection, the entry that is closed being the last extracted; the
\* entries left are in order of priority and, within a priority, of insertion.
C25_MinPriorityEarliestFirst ==
  [][ WeightedRunning =>
        \A all \in {RelaxedPq} :
          LET Before(a, b) == \/ a.priority < b.priority
                              \/ (a.priority = b.priority /\ Pos(all, a) < Pos(all, b))
              left == {gen'.pq[i] : i \in DOMAIN gen'.pq}
              taken == {all[i] : i \in DOMAIN all} \ left
          IN /\ NoRepeat(all)
             /\ SubSeq(all, 1, Len(gen.pq)) = gen.pq
             /\ left \subseteq {all[i] : i \in DOMAIN all}
             /\ Len(gen'.pq) + Cardinality(taken) = Len(all)
             /\ \A t \in taken : \A x \in left : Before(t, x)
             /\ \A t \in taken :
                  (~done' /\ t.coord # gen'.current[1]) =>
                    \E c \in taken : c.coord = gen'.current[1] /\ Before(t, c)
             /\ \A i \in 1..(Len(gen'.pq) - 1) : Before(gen'.pq[i], gen'.pq[i + 1]) ]_vars

C25_Witness ==
  /\ algorithm = "GREEDY" /\ gen.pc = "yielded"
  /\ gen.currentG > MapGet(gen.distMap, toKey(gen.current[1]))
  /\ \E i \in DOMAIN gen.pq :
       /\ gen.pq[i].coord = gen.current[1]
       /\ gen.pq[i].g = MapGet(gen.distMap, toKey(gen.current[1]))
\* C26: Dijkstra runs with (usePathCost, heuristicWeight) = (true, 0), A* with
\* (true, 1), Greedy with (false, 1).  The entries a step inserts are those for the
\* neighbours of the node yielded before that are not closed and can be reached at a
\* cost g, the cost of the extracted entry plus one, strictly below their best-known
\* cost; each has that g and priority (usePathCost ? g : 0) + heuristicWeight *
\* Manhattan(coordinate, goal), and the best-known cost of its coordinate is lowered
\* to g; no other best-known cost changes.
C26_RelaxationPriority ==
  [][ WeightedRunning =>
        \A all \in {RelaxedPq} :
          LET new == SubSeq(all, Len(gen.pq) + 1, Len(all))
              newKeys == {toKey(new[i].coord) : i \in DOMAIN new}
              g == gen.currentG + 1
              cheaper == {n \in OpenCells :
                            /\ gen.pc = "yielded" /\ Adjacent(n, gen.current[1])
                            /\ ~SetHas(gen.visitedSet, toKey(n))
                            /\ g < BestKnown(gen, toKey(n))}
          IN /\ gen.config.usePathCost = (algorithm \in {"DIJKSTRA", "ASTAR"})
             /\ gen.config.heuristicWeight = (IF algorithm = "DIJKSTRA" THEN 0 ELSE 1)
             /\ newKeys = {toKey(n) : n \in cheaper}
             /\ Len(new) = Cardinality(cheaper)
             /\ \A i \in DOMAIN new :
                  /\ new[i].g = g
                  /\ new[i].priority =
                       (IF gen.config.usePathCost THEN g ELSE 0)
                         + gen.config.heuristicWeight * Manhattan(new[i].coord, end)
                  /\ BestKnown(gen', toKey(new[i].coord)) = g
             /\ \A c \in OpenCells :
                  toKey(c) \notin newKeys => BestKnown(gen', toKey(c)) = BestKnown(gen, toKey(c))
             /\ ~done' => \E i \in DOMAIN all :
                            /\ all[i].coord = gen'.current[1]
                            /\ all[i].g = gen'.currentG
                            /\ ~SeqHas(gen'.pq, all[i]) ]_vars

C26_Witness ==
  /\ algorithm = "ASTAR" /\ gen.pc = "yielded"
  /\ \E i, j \in DOMAIN gen.pq :
       /\ gen.pq[i].coord = gen.pq[j].coord /\ gen.pq[i].g < gen.pq[j].g
       /\ BestKnown(gen, toKey(gen.pq[i].coord)) = gen.pq[i].g
       /\ gen.pq[i].priority = gen.pq[i].g + Manhattan(gen.pq[i].coord, end)
\* C27: in the weighted search, under each of the three configurations, whenever an
\* entry is extracted and its coordinate closed, the entry's accumulated cost g is the
\* best-known cost recorded for the coordinate and the number of edges of the parent
\* chain from the coordinate back to start.
C27_ClosedCostIsChainLength ==
  (algorithm \in WeightedTypes /\ AtYield) =>
    /\ gen.currentG = BestKnown(gen, toKey(gen.current[1]))
    /\ gen.currentG = Len(reconstructPath(gen.parentMap, toKey(gen.current[1]))) - 1

C27_Witness ==
  /\ algorithm = "GREEDY" /\ gen.pc = "yielded"
  /\ gen.currentG = BestKnown(gen, toKey(gen.current[1])) + 2
  /\ Len(reconstructPath(gen.parentMap, toKey(gen.current[1]))) - 1
       = BestKnown(gen, toKey(gen.current[1]))
\* C30: in BFS, Dijkstra, A*, Greedy and the bidirectional search every progress
\* frame has an empty path; a frame with a non-empty path is yielded only when the
\* goal, or a meeting of the two sides, has been reached, and the call after it
\* reports done, so it is the last frame of the run.
C30_PathOnlyInLastFrame ==
  [][ (algorithm \in {"BFS", "DIJKSTRA", "ASTAR", "GREEDY", "BIDIRECTIONAL"}
       /\ value # << >>) =>
        IF value[1].path = << >>
          THEN gen.pc = "yielded"
          ELSE /\ AtFinal
               /\ IF algorithm = "BIDIRECTIONAL"
                    THEN LET meeting == IF gen.pc = "finalStart" THEN gen.currStart[1]
                                                                 ELSE gen.currEnd[1]
                         IN /\ MapHas(gen.startVisited, toKey(meeting))
                            /\ MapHas(gen.endVisited, toKey(meeting))
                    ELSE gen.current[1] = end
               /\ value[1].frontier = << >> /\ value[1].current = << >>
               /\ done' /\ value' = << >> ]_vars

C30_Witness ==
  /\ algorithm = "BIDIRECTIONAL" /\ done /\ gen.pc = "done" /\ extraCalls = 0
  /\ gen.currEnd # << >> /\ lastValue # << >> /\ Len(lastValue[1].path) >= 4
  /\ Len(lastValue[1].visited) >= 6
\* C31: in IDA* the bound starts at the Manhattan distance of start and goal; a step
\* changes it only at the end of an inner search that did not come to the goal, to
\* the lowest cost f = g + h of the nodes that search pruned, which is above the old
\* bound; and the run finishes without a final frame only at the end of an inner
\* search that neither came to the goal nor pruned a node.
C31_BoundIsMinPruned ==
  [][ algorithm = "IDA_STAR" =>
        /\ (gen.pc = "start") => gen.bound = Manhattan(start, end)
        /\ (gen'.bound # gen.bound) =>
              \A pruned \in {PrunedCosts(gen.bound)} :
                /\ ~FoundWithin(gen.bound)
                /\ pruned # {}
                /\ gen'.bound = Minimum(pruned)
                /\ gen'.bound > gen.bound
        /\ (~done /\ done' /\ gen.pc # "final") =>
              (PrunedCosts(gen.bound) = {} /\ ~FoundWithin(gen.bound))
        /\ (gen'.pc = "final" /\ gen.pc # "final") => FoundWithin(gen'.bound) ]_vars

C31_Witness ==
  /\ algorithm = "IDA_STAR" /\ gen.pc = "yielded"
  /\ gen.bound >= Manhattan(start, end) + 4 /\ Len(gen.pathStack) >= 3
\* C32 as stated: at every yield of IDA* the frame's path is the path stack, a simple
\* path from start through adjacent open cells whose last entry is the frame's
\* current node; and a neighbour is skipped exactly when it is on the path stack.
C32_StackEndsAtCurrent ==
  [][ algorithm = "IDA_STAR" =>
        /\ (value' # << >>) =>
              /\ value'[1].path = gen'.pathStack
              /\ SimpleFromStart(gen'.pathStack)
              /\ value'[1].current = <<Last(gen'.pathStack)>>
        /\ SkipsOnlyStack ]_vars

\* C32 amended: at every yield of IDA* the frame's path is the path stack, a simple
\* path from start through adjacent open cells; at a progress yield its last entry
\* is the frame's current node, at the final yield its last entry is the goal and
\* the frame has no current node; a neighbour is skipped exactly when it is on the
\* path stack, also when visitedKeys holds it.
C32_StackEndsAtCurrentOrGoal ==
  [][ algorithm = "IDA_STAR" =>
        /\ (value' # << >>) =>
              /\ value'[1].path = gen'.pathStack
              /\ SimpleFromStart(gen'.pathStack)
              /\ IF gen'.pc = "final"
                   THEN value'[1].current = << >> /\ Last(gen'.pathStack) = end
                   ELSE value'[1].current = <<Last(gen'.pathStack)>>
        /\ SkipsOnlyStack ]_vars

\* a cell pushed again under a raised bound, although visitedKeys holds it
C32_Witness ==
  /\ algorithm = "IDA_STAR" /\ gen.pc = "yielded"
  /\ gen.bound > Manhattan(start, end)
  /\ Len(gen.pathStack) = 2 /\ Len(gen.visitedKeys) >= 4
  /\ value[1].current = <<gen.pathStack[2]>>
C34_GridUntouched ==
  [][ /\ DOMAIN grid' = DOMAIN grid
      /\ \A cy \in DOMAIN grid :
           /\ DOMAIN grid'[cy] = DOMAIN grid[cy]
           /\ \A cx \in DOMAIN grid[cy] : grid'[cy][cx] = grid[cy][cx]
      /\ start' = start
      /\ end' = end ]_vars

C34_Witness ==
  /\ gen.pc = "yielded" /\ algorithm = "BIDIRECTIONAL"
  /\ Len(value[1].visited) >= 5
  /\ \E c \in Cells : grid[c.y][c.x] = WALL
  /\ grid[start.y][start.x] = START /\ grid[end.y][end.x] = END
\* C35: in the driver at most one step timer is pending, it is the one timerRef
\* names and it belongs to the run in progress, whose instance generatorRef holds;
\* once Reset or New Maze is handled no timer is pending, no instance is referenced,
\* the animation state and counts are cleared and the status is IDLE; every step
\* that executes, and every frame applied, is of the run in progress; and the
\* status leaves IDLE only by a Run.
C35_OneTimerNoStaleStep ==
  [][ (driver' # NoDriver) =>
        /\ Cardinality(driver'.pending) <= 1
        /\ \A t \in driver'.pending :
             /\ t.id = driver'.timerRef
             /\ t.run = driver'.current
             /\ gen' # NotCreated
             /\ driver'.status = "RUNNING"
        /\ (driver'.current = 0) =>
             /\ gen' = NotCreated
             /\ driver'.pending = {}
             /\ driver'.status = "IDLE"
             /\ driver'.animationState = NoAnimation
             /\ driver'.visitedCount = 0 /\ driver'.pathLength = 0
        /\ (tick' # tick) =>
             /\ driver'.current # 0
             /\ driver'.stepBy = driver'.current
        /\ (driver'.animationState # driver.animationState
              /\ driver'.animationState # NoAnimation) =>
             /\ tick' # tick
             /\ driver'.stepBy = driver'.current
        /\ (driver.status = "IDLE" /\ driver'.status # "IDLE") =>
             driver'.runs = driver.runs + 1 ]_vars

\* a run abandoned by Reset or New Maze while its timer was pending
C35_Witness ==
  /\ driver # NoDriver
  /\ driver.current = 0 /\ driver.runs >= 1 /\ driver.nextId >= 3
  /\ ~done /\ value # << >>
  /\ driver.status = "IDLE" /\ driver.timerRef = 0
\* C36: when the grid with start and end forced open is not solvable, the repaired
\* grid has start (1,1) and end open, end is reachable from start through
\* orthogonally adjacent open cells, and every cell the repair changed was not
\* open before and is open after: no open cell has become a wall.
C36_RepairOpensAPath ==
  (service.pc = "returned" /\ ~service.isSolvable) =>
    /\ RawAt(service.rawGrid, serviceStart.x, serviceStart.y) = 1
    /\ RawAt(service.rawGrid, serviceEnd.x, serviceEnd.y) = 1
    /\ grid[start.y][start.x] = START /\ grid[end.y][end.x] = END
    /\ Solvable
    /\ \A c \in ServiceCells :
         /\ (RawAt(service.forced, c.x, c.y) = 1) => RawAt(service.rawGrid, c.x, c.y) = 1
         /\ (RawAt(service.rawGrid, c.x, c.y) # RawAt(service.forced, c.x, c.y)) =>
              (RawAt(service.forced, c.x, c.y) # 1 /\ RawAt(service.rawGrid, c.x, c.y) = 1)

\* a repair that had to open three cells, one of them not a 0
C36_Witness ==
  /\ service.pc = "returned" /\ ~service.isSolvable
  /\ Cardinality({c \in ServiceCells :
                    RawAt(service.rawGrid, c.x, c.y) # RawAt(service.forced, c.x, c.y)}) >= 3
  /\ \E c \in ServiceCells :
       RawAt(service.forced, c.x, c.y) = 2 /\ RawAt(service.rawGrid, c.x, c.y) = 1
\* C37 as stated: for every width and height the carver comes to its return under
\* every sequence of random choices, and the grid returned has walls all around,
\* start (1,1) and end (w-2,h-2) not walls, and end reachable from start.
C37_CarverReturnsForEverySize ==
  /\ (carver.pc = "called") ~> (carver.pc = "returned")
  /\ []((carver.pc = "returned") => GoodMaze)

\* C37 amended: for every width and height of at least 2 the carver comes to its
\* return under every sequence of random choices, and the grid returned has walls
\* all around, start (1,1) and end (w-2,h-2) not walls, and end reachable from
\* start; for a width or height of 1 the call ends by throwing, with no grid.
C37_CarverReturnsFromSizeTwo ==
  /\ (carver.pc = "called" /\ carver.width >= 2 /\ carver.height >= 2)
       ~> (carver.pc = "returned")
  /\ (carver.pc = "called" /\ (carver.width < 2 \/ carver.height < 2))
       ~> (carver.pc = "threw")
  /\ []((carver.pc = "returned") => GoodMaze)

\* a maze of seven by five returned for a width of six, carved with a backtrack:
\* a dead end at (1,3) and the passage on to (5,1) by way of (3,3) and (5,3)
C37_Witness ==
  /\ carver # NoCarver /\ carver.pc = "returned"
  /\ carver.width = 6 /\ carver.height = 5
  /\ grid[1][4] = WALL /\ grid[2][1] = WALL
  /\ grid[3][2] = EMPTY /\ grid[2][5] = EMPTY
====
